---- MODULE Spec2Model ----
(***************************************************************************)
(* Model of the Discord-markdown to HTML engine of the Gabby Gums logger   *)
(* (src/utils/discordMarkdownParser.py).  A text is a sequence of          *)
(* one-character strings; every pass of DiscordMarkdown.markdown is a      *)
(* global leftmost, non-overlapping substitution of one compiled pattern.  *)
(***************************************************************************)
EXTENDS Integers, Sequences, FiniteSets, TLC

\* ------------------------------------------------------------------------
\* Character classes used by the compiled patterns
\* ------------------------------------------------------------------------
Lower == {"a", "b", "c", "d", "e", "f", "g", "h", "i", "j", "k", "l", "m", "n", "o", "p", "q", "r", "s", "t", "u", "v", "w", "x", "y", "z"}

Upper == {"A", "B", "C", "D", "E", "F", "G", "H", "I", "J", "K", "L", "M", "N", "O", "P", "Q", "R", "S", "T", "U", "V", "W", "X", "Y", "Z"}

Digit == {"0", "1", "2", "3", "4", "5", "6", "7", "8", "9"}

\* The grave accent U+0060, the delimiter of code.  A TLA+ string cannot
\* hold that character, so the model writes it as this one-element token;
\* it belongs to no class but the symbols and the womboji class.
BACKTICK == "BACKTICK"

\* [a-zA-Z0-9]
Alnum == Lower \cup Upper \cup Digit

\* \s of the module regex, which the source imports as re: the characters
\* with the Unicode property White_Space.  U+000B, U+0085 and U+00A0 stand
\* in the set as themselves; a TLA+ string cannot hold a character above
\* U+00FF, so each of those is written as the one-element token of its code
\* point.  (U+001C..U+001F are whitespace for str.isspace and the standard
\* re, not for regex.)
Space ==
    {" ", "\n", "\t", "\r", "\f", "", "", " "}
    \cup {"U+1680", "U+2000", "U+2001", "U+2002", "U+2003", "U+2004", "U+2005",
          "U+2006", "U+2007", "U+2008", "U+2009", "U+200A", "U+2028", "U+2029",
          "U+202F", "U+205F", "U+3000"}

\* [^\n\S]
HSpace == Space \ {"\n"}

\* [a-zA-Z0-9-]
LangChar == Alnum \cup {"-"}

\* [0-9a-zA-Z_]
NameChar == Alnum \cup {"_"}

\* [a-zA-Z0-9!-;=?-~\s]
WombojiChar ==
    Alnum \cup Space \cup {"="}
    \cup {"!", "\"", "#", "$", "%", "&", "'", "(", ")", "*", "+", ",", "-", ".", "/", ":", ";"}
    \cup {"?", "@", "[", "\\", "]", "^", "_", BACKTICK, "{", "|", "}", "~"}

\* [^a-zA-Z0-9\s]
IsSymbol(c) == c \notin Alnum /\ c \notin Space

BACKSLASH == "\\"

\* The value of a capture group that took no part in the match, and of a
\* replacement callback that falls through to its last branch.
None == <<"None">>

\* ------------------------------------------------------------------------
\* Sequence helpers
\* ------------------------------------------------------------------------
\* the literal lit occurs in s at index i
StartsAt(s, i, lit) ==
    /\ i >= 1
    /\ i + Len(lit) - 1 =< Len(s)
    /\ \A k \in 1..Len(lit) : s[i + k - 1] = lit[k]

\* s[a..b], empty when b < a
Slice(s, a, b) == IF b < a THEN <<>> ELSE SubSeq(s, a, b)

\* a lookbehind that accepts every position
NotEscaped_always(s, i) == TRUE

\* the negative lookbehind (?<!\\) at index i
NotEscaped(s, i) == i = 1 \/ s[i - 1] # BACKSLASH

\* the least k in lo..hi with P[k], hi + 1 when there is none: how a scan
\* that moves right one character at a time ends
LeastFrom(lo, hi, P) ==
    IF lo > hi THEN lo
    ELSE CHOOSE k \in lo..(hi + 1) :
            /\ k = hi + 1 \/ P[k]
            /\ \A j \in lo..(k - 1) : ~P[j]

\* the greatest k in lo..hi with P[k], lo - 1 when there is none: how a
\* greedy scan that gives back one character at a time ends
GreatestUpTo(lo, hi, P) ==
    IF lo > hi THEN lo - 1
    ELSE CHOOSE k \in (lo - 1)..hi :
            /\ k = lo - 1 \/ P[k]
            /\ \A j \in (k + 1)..hi : ~P[j]

\* first index >= i whose character is not in class (Len(s)+1 if none)
SkipWhile(s, i, class) ==
    LeastFrom(i, Len(s), [k \in i..Len(s) |-> s[k] \notin class])

\* first index >= i whose character is in class (Len(s)+1 if none)
SkipUntil(s, i, class) ==
    LeastFrom(i, Len(s), [k \in i..Len(s) |-> s[k] \in class])

RECURSIVE ConcatRange(_, _, _)
\* f[a] \o f[a+1] \o ... \o f[b]
ConcatRange(f, a, b) ==
    IF a > b THEN <<>>
    ELSE IF a = b THEN f[a]
    ELSE LET mid == (a + b) \div 2
         IN  ConcatRange(f, a, mid) \o ConcatRange(f, mid + 1, b)

\* a match object: end is the index after the match, g1..g3 its groups
NoMatch == [ok |-> FALSE, end |-> 0, g1 |-> None, g2 |-> None, g3 |-> None]

Match(e, a, b, c) == [ok |-> TRUE, end |-> e, g1 |-> a, g2 |-> b, g3 |-> c]

\* ------------------------------------------------------------------------
\* jinja2.escape: the initial HTML escape
\* ------------------------------------------------------------------------
\* an escape that also turns the line feed into a break element
escape_char_break(c) ==
    CASE c = "&" -> <<"&", "a", "m", "p", ";">>
      [] c = "<" -> <<"&", "l", "t", ";">>
      [] c = ">" -> <<"&", "g", "t", ";">>
      [] c = "'" -> <<"&", "#", "3", "9", ";">>
      [] c = "\"" -> <<"&", "#", "3", "4", ";">>
      [] c = "\n" -> <<"<", "b", "r", ">">>
      [] OTHER -> <<c>>

\* an escape that leaves the opening angle bracket as it is
escape_char_keeps_lt(c) ==
    CASE c = "&" -> <<"&", "a", "m", "p", ";">>
      [] c = ">" -> <<"&", "g", "t", ";">>
      [] c = "'" -> <<"&", "#", "3", "9", ";">>
      [] c = "\"" -> <<"&", "#", "3", "4", ";">>
      [] OTHER -> <<c>>

escape_char(c) ==
    CASE c = "&" -> <<"&", "a", "m", "p", ";">>
      [] c = "<" -> <<"&", "l", "t", ";">>
      [] c = ">" -> <<"&", "g", "t", ";">>
      [] c = "'" -> <<"&", "#", "3", "9", ";">>
      [] c = "\"" -> <<"&", "#", "3", "4", ";">>
      [] OTHER -> <<c>>

escape(s) == ConcatRange([i \in 1..Len(s) |-> escape_char(s[i])], 1, Len(s))

\* ------------------------------------------------------------------------
\* escape_symbols / remove_escaped_symbol
\* ------------------------------------------------------------------------
\* a pattern that also takes the alphanumeric characters ([^\s])
symbols_pattern_nonspace(s, i) ==
    IF s[i] \notin Space THEN Match(i + 1, <<s[i]>>, None, None) ELSE NoMatch

\* a pattern that leaves the backslash alone
symbols_pattern_no_backslash(s, i) ==
    IF IsSymbol(s[i]) /\ s[i] # BACKSLASH
    THEN Match(i + 1, <<s[i]>>, None, None)
    ELSE NoMatch

\* symbols_pattern at index i: one character that is neither alphanumeric
\* nor whitespace.  g1 = content
symbols_pattern(s, i) ==
    IF IsSymbol(s[i]) THEN Match(i + 1, <<s[i]>>, None, None) ELSE NoMatch

escape_symbols_repl(m) == <<BACKSLASH>> \o m.g1

\* symbols_pattern matches one character at a time, so the substitution
\* maps every character on its own
escape_symbols(s) ==
    ConcatRange([i \in 1..Len(s) |->
                    LET m == symbols_pattern(s, i)
                    IN  IF m.ok THEN escape_symbols_repl(m) ELSE <<s[i]>>],
                1, Len(s))

\* escaped_symbols_pattern at index i: a backslash and one symbol.
\* g1 = content
escaped_symbols_pattern(s, i) ==
    IF s[i] = BACKSLASH /\ i < Len(s) /\ IsSymbol(s[i + 1])
    THEN Match(i + 2, <<s[i + 1]>>, None, None)
    ELSE NoMatch

remove_escaped_symbol_repl(m) == m.g1

\* ------------------------------------------------------------------------
\* Literals of the patterns and of the replacement templates
\* ------------------------------------------------------------------------
NL == {"\n"}

Fence == <<BACKTICK, BACKTICK, BACKTICK>>

LT == <<"&", "l", "t", ";">>

GT == <<"&", "g", "t", ";">>

QuoteTriple == <<"&", "g", "t", ";", "&", "g", "t", ";", "&", "g", "t", ";", " ">>

QuoteSingle == <<"&", "g", "t", ";", " ">>

Http == <<"h", "t", "t", "p">>

SchemeSep == <<":", "/", "/">>

TagCodeLang == <<"<", "d", "i", "v", " ", "c", "l", "a", "s", "s", "=", "\"", "p", "r", "e", " ", "p", "r", "e", "-", "-", "m", "u", "l", "t", "i", "l", "i", "n", "e", " ", "l", "a", "n", "g", "u", "a", "g", "e", "-">>

TagAttrEnd == <<"\"", ">">>

TagCodePlain == <<"<", "d", "i", "v", " ", "c", "l", "a", "s", "s", "=", "\"", "p", "r", "e", " ", "p", "r", "e", "-", "-", "m", "u", "l", "t", "i", "l", "i", "n", "e", " ", "n", "o", "h", "i", "g", "h", "l", "i", "g", "h", "t", "\"", ">">>

TagDivEnd == <<"<", "/", "d", "i", "v", ">">>

TagInlineCode == <<"<", "s", "p", "a", "n", " ", "c", "l", "a", "s", "s", "=", "\"", "p", "r", "e", " ", "p", "r", "e", "-", "-", "i", "n", "l", "i", "n", "e", "\"", ">">>

TagSpanEnd == <<"<", "/", "s", "p", "a", "n", ">">>

TagSpoiler == <<"<", "s", "p", "a", "n", " ", "c", "l", "a", "s", "s", "=", "\"", "s", "p", "o", "i", "l", "e", "r", "\"", ">">>

TagStrong == <<"<", "s", "t", "r", "o", "n", "g", ">">>

TagStrongEnd == <<"<", "/", "s", "t", "r", "o", "n", "g", ">">>

TagU == <<"<", "u", ">">>

TagUEnd == <<"<", "/", "u", ">">>

TagEm == <<"<", "e", "m", ">">>

TagEmEnd == <<"<", "/", "e", "m", ">">>

TagS == <<"<", "s", ">">>

TagSEnd == <<"<", "/", "s", ">">>

TagQuote == <<"<", "d", "i", "v", " ", "c", "l", "a", "s", "s", "=", "\"", "q", "u", "o", "t", "e", "\"", ">">>

TagAnchor == <<"<", "a", " ", "h", "r", "e", "f", "=", "\"">>

TagAnchorEnd == <<"<", "/", "a", ">">>

TagEmoji == <<"<", "i", "m", "g", " ", "c", "l", "a", "s", "s", "=", "\"", "e", "m", "o", "j", "i", "\"", " ", "a", "l", "t", "=", "\"">>

TagEmojiLarge == <<"<", "i", "m", "g", " ", "c", "l", "a", "s", "s", "=", "\"", "e", "m", "o", "j", "i", " ", "e", "m", "o", "j", "i", "-", "-", "l", "a", "r", "g", "e", "\"", " ", "a", "l", "t", "=", "\"">>

AttrTitle == <<"\"", " ", "t", "i", "t", "l", "e", "=", "\"">>

AttrSrc == <<"\"", " ", "s", "r", "c", "=", "\"">>

EmojiCdn == <<"h", "t", "t", "p", "s", ":", "/", "/", "c", "d", "n", ".", "d", "i", "s", "c", "o", "r", "d", "a", "p", "p", ".", "c", "o", "m", "/", "e", "m", "o", "j", "i", "s", "/">>

ExtGif == <<".", "g", "i", "f">>

ExtPng == <<".", "p", "n", "g">>

\* {2,32} of nitro_emote_pattern and womboji_pattern
NameMin == 2

NameMax == 32

\* {15,21} of nitro_emote_pattern and womboji_pattern
IdMin == 15

IdMax == 21

\* ------------------------------------------------------------------------
\* codeblock_pattern
\*   (?P<stag>```)(?:(?P<lang>[a-zA-Z0-9-]+?)\n+)?\n*(?P<content>[\s\S]+?)\n*(?P<etag>```)
\* ------------------------------------------------------------------------
\* the lazy [\s\S]+? : the least e >= from such that \n*``` matches right
\* after s[e]; 0 when there is none
content_end(s, from) ==
    LET e == LeastFrom(from, Len(s),
                [k \in from..Len(s) |->
                    StartsAt(s, SkipWhile(s, k + 1, NL), Fence)])
    IN  IF e > Len(s) THEN 0 ELSE e

\* \n*(?P<content>[\s\S]+?)\n*``` tried from index k.  The greedy \n* first
\* takes every newline; when no closing fence follows a content that begins
\* after them, it gives one newline back to the content, which it may do as
\* long as the content begins at lo or later.
codeblock_tail(s, k, lo, lang) ==
    LET p == SkipWhile(s, k, NL)
        e == content_end(s, p)
    IN  IF e # 0
        THEN Match(SkipWhile(s, e + 1, NL) + 3, lang, Slice(s, p, e), None)
        ELSE IF p - 1 >= lo /\ StartsAt(s, p, Fence)
        THEN Match(p + 3, lang, <<"\n">>, None)
        ELSE NoMatch

\* g1 = lang, g2 = content
codeblock_pattern(s, i) ==
    IF ~StartsAt(s, i, Fence) THEN NoMatch
    ELSE LET l == SkipWhile(s, i + 3, LangChar)
             withLang == IF l > i + 3 /\ l =< Len(s) /\ s[l] = "\n"
                         THEN codeblock_tail(s, l, l + 1, Slice(s, i + 3, l - 1))
                         ELSE NoMatch
         IN  IF withLang.ok THEN withLang
             ELSE codeblock_tail(s, i + 3, i + 3, None)

\* a callback that never names the language
codeblock_repl_plain(m) ==
    TagCodePlain \o escape_symbols(m.g2) \o TagDivEnd

codeblock_repl(m) ==
    LET e_tag == TagDivEnd
        s_tag == IF m.g1 # None
                 THEN TagCodeLang \o m.g1 \o TagAttrEnd
                 ELSE TagCodePlain
        content == escape_symbols(m.g2)
    IN  s_tag \o content \o e_tag

\* ------------------------------------------------------------------------
\* inlinecodeblock_pattern   (?<!\\)(`)(?P<content>[^`]*?[^`])(\1)(?!`)
\* ------------------------------------------------------------------------
\* g1 = content
inlinecodeblock_pattern(s, i) ==
    IF s[i] = BACKTICK /\ NotEscaped(s, i)
    THEN LET j == SkipUntil(s, i + 1, {BACKTICK})
         IN  IF /\ j > i + 1
                /\ j =< Len(s)
                /\ ~(j + 1 =< Len(s) /\ s[j + 1] = BACKTICK)
             THEN Match(j + 1, Slice(s, i + 1, j - 1), None, None)
             ELSE NoMatch
    ELSE NoMatch

inline_codeblock_repl(m) ==
    LET s_tag == TagInlineCode
        e_tag == TagSpanEnd
        content == escape_symbols(m.g1)
    IN  s_tag \o content \o e_tag

\* ------------------------------------------------------------------------
\* The delimiter-pair patterns   (?<!\\)D(?P<content>.+?)(?<!\\)D
\* ------------------------------------------------------------------------
\* the lazy .+? : the least e >= from such that s[e] is not a backslash, the
\* closing delimiter stands right after s[e] and the character after it is
\* not in notNext; 0 when a newline or the end of the text comes first
lazy_close(s, from, close, notNext) ==
    LET stop == SkipUntil(s, from, NL)
        e == LeastFrom(from, stop - 1,
                [k \in from..(stop - 1) |->
                    /\ s[k] # BACKSLASH
                    /\ StartsAt(s, k + 1, close)
                    /\ ~(/\ k + Len(close) + 1 =< Len(s)
                         /\ s[k + Len(close) + 1] \in notNext)])
    IN  IF e > stop - 1 THEN 0 ELSE e

\* the index of the last character of the content, 0 when no match
delimited(s, i, delim, notNext) ==
    IF StartsAt(s, i, delim) /\ NotEscaped(s, i)
    THEN lazy_close(s, i + Len(delim), delim, notNext)
    ELSE 0

\* g1 = content
delimited_match(s, i, delim, notNext) ==
    LET e == delimited(s, i, delim, notNext)
    IN  IF e # 0
        THEN Match(e + Len(delim) + 1, Slice(s, i + Len(delim), e), None, None)
        ELSE NoMatch

strikethrough_pattern(s, i) == delimited_match(s, i, <<"~", "~">>, {"_"})

spoiler_pattern(s, i) == delimited_match(s, i, <<"|", "|">>, {})

\* a pattern that takes the rest of the line when the pair is not closed
bold_pattern_unclosed(s, i) ==
    LET delim == <<"*", "*">>
        stop == SkipUntil(s, i + Len(delim), NL)
    IN  IF delimited(s, i, delim, {}) # 0 THEN delimited_match(s, i, delim, {})
        ELSE IF StartsAt(s, i, delim) /\ NotEscaped(s, i) /\ stop > i + Len(delim)
        THEN Match(stop, Slice(s, i + Len(delim), stop - 1), None, None)
        ELSE NoMatch

bold_pattern(s, i) == delimited_match(s, i, <<"*", "*">>, {})

underline_pattern(s, i) == delimited_match(s, i, <<"_", "_">>, {})

\* a pattern whose second alternative has no capture group
italics_pattern_uncaptured(s, i) ==
    LET star == delimited(s, i, <<"*">>, {})
        under == delimited(s, i, <<"_">>, {})
    IN  IF star # 0 THEN Match(star + 2, Slice(s, i + 1, star), None, None)
        ELSE IF under # 0 THEN Match(under + 2, None, None, None)
        ELSE NoMatch

\* g1 = s_content, g2 = u_content
italics_pattern(s, i) ==
    LET star == delimited(s, i, <<"*">>, {})
        under == delimited(s, i, <<"_">>, {})
    IN  IF star # 0 THEN Match(star + 2, Slice(s, i + 1, star), None, None)
        ELSE IF under # 0 THEN Match(under + 2, None, Slice(s, i + 1, under), None)
        ELSE NoMatch

\* the template r"{}\g<content>{}".format(first_tag, end_tag)
wrap_repl(first_tag, end_tag, m) == first_tag \o m.g1 \o end_tag

spoiler_repl(m) == wrap_repl(TagSpoiler, TagSpanEnd, m)

strikethrough_repl(m) == wrap_repl(TagS, TagSEnd, m)

bold_repl(m) == wrap_repl(TagStrong, TagStrongEnd, m)

underline_repl(m) == wrap_repl(TagU, TagUEnd, m)

italics_repl(m) ==
    LET s_tag == TagEm
        e_tag == TagEmEnd
    IN  IF m.g1 # None THEN s_tag \o m.g1 \o e_tag
        ELSE IF m.g2 # None THEN s_tag \o m.g2 \o e_tag
        ELSE None

\* ------------------------------------------------------------------------
\* blockQuote_pattern (re.MULTILINE)
\*   ^(?: *&gt;&gt;&gt; ([\s\S]*))|^(?: *&gt; ([^\n]*\n*))
\* ------------------------------------------------------------------------
\* ^ in multi-line mode
LineStart(s, i) == i = 1 \/ s[i - 1] = "\n"

\* a pattern whose triple form ends with its line
blockQuote_pattern_one_line(s, i) ==
    IF ~LineStart(s, i) THEN NoMatch
    ELSE LET j == SkipWhile(s, i, {" "})
         IN  IF StartsAt(s, j, QuoteTriple)
             THEN LET k == SkipUntil(s, j + Len(QuoteTriple), NL)
                  IN  Match(k, Slice(s, j + Len(QuoteTriple), k - 1), None, None)
             ELSE IF StartsAt(s, j, QuoteSingle)
             THEN LET k == SkipUntil(s, j + Len(QuoteSingle), NL)
                      e == SkipWhile(s, k, NL)
                  IN  Match(e, None, Slice(s, j + Len(QuoteSingle), e - 1), None)
             ELSE NoMatch

\* g1 = the triple form's content, g2 = the single form's content
blockQuote_pattern(s, i) ==
    IF ~LineStart(s, i) THEN NoMatch
    ELSE LET j == SkipWhile(s, i, {" "})
         IN  IF StartsAt(s, j, QuoteTriple)
             THEN Match(Len(s) + 1, Slice(s, j + Len(QuoteTriple), Len(s)), None, None)
             ELSE IF StartsAt(s, j, QuoteSingle)
             THEN LET k == SkipUntil(s, j + Len(QuoteSingle), NL)
                      e == SkipWhile(s, k, NL)
                  IN  Match(e, None, Slice(s, j + Len(QuoteSingle), e - 1), None)
             ELSE NoMatch

\* str.replace('\n', '')
strip_newlines(t) == SelectSeq(t, LAMBDA c : c # "\n")

blockquote_repl(m) ==
    LET s_tag == TagQuote
        e_tag == TagDivEnd
    IN  IF m.g1 # None THEN s_tag \o m.g1 \o e_tag
        ELSE IF m.g2 # None THEN s_tag \o strip_newlines(m.g2) \o e_tag
        ELSE None

\* ------------------------------------------------------------------------
\* suppresed_embed_link_pattern   &lt;(?P<content>http[s]?:\/\/\S+?)&gt;
\* ------------------------------------------------------------------------
\* http[s]?:\/\/ at index i: the index after it, 0 when it does not match
url_head(s, i) ==
    IF ~StartsAt(s, i, Http) THEN 0
    ELSE IF StartsAt(s, i + 4, <<"s">> \o SchemeSep) THEN i + 8
    ELSE IF StartsAt(s, i + 4, SchemeSep) THEN i + 7
    ELSE 0

\* the lazy \S+? : the least e >= from such that lit stands right after
\* s[e]; 0 when whitespace or the end of the text comes first
lazy_until(s, from, lit) ==
    LET stop == SkipUntil(s, from, Space)
        e == LeastFrom(from, stop - 1,
                [k \in from..(stop - 1) |-> StartsAt(s, k + 1, lit)])
    IN  IF e > stop - 1 THEN 0 ELSE e

\* g1 = content
suppresed_embed_link_pattern(s, i) ==
    IF ~StartsAt(s, i, LT) THEN NoMatch
    ELSE LET h == url_head(s, i + Len(LT))
             e == IF h = 0 THEN 0 ELSE lazy_until(s, h, GT)
         IN  IF e # 0
             THEN Match(e + 1 + Len(GT), Slice(s, i + Len(LT), e), None, None)
             ELSE NoMatch

\* the template r"\g<content>"
remove_suppressed_embed_arrows_repl(m) == m.g1

\* ------------------------------------------------------------------------
\* web_link_pattern
\*   \[(.+)\]\([^\n\S]*?(http[s]?:\/\/[\S]+?)[^\n\S]*?\)|(http[s]?:\/\/[\S]+)
\* ------------------------------------------------------------------------
\* the lazy [\S]+? of the bracketed form: the least e >= from such that
\* [^\n\S]*?\) matches right after s[e]; 0 when there is none
url_end(s, from) ==
    LET stop == SkipUntil(s, from, Space)
        e == LeastFrom(from, stop - 1,
                [k \in from..(stop - 1) |->
                    StartsAt(s, SkipWhile(s, k + 1, HSpace), <<")">>)])
    IN  IF e > stop - 1 THEN 0 ELSE e

\* \]\([^\n\S]*?(http[s]?:\/\/[\S]+?)[^\n\S]*?\) tried with the ] at index j
link_tail(s, i, j) ==
    IF ~StartsAt(s, j, <<"]", "(">>) THEN NoMatch
    ELSE LET w == SkipWhile(s, j + 2, HSpace)
             h == url_head(s, w)
             e == IF h = 0 THEN 0 ELSE url_end(s, h)
         IN  IF e # 0
             THEN Match(SkipWhile(s, e + 1, HSpace) + 1,
                        Slice(s, i + 1, j - 1), Slice(s, w, e), None)
             ELSE NoMatch

\* the greedy (.+) : the label takes the whole line up to index hi and is
\* shortened one character at a time until the rest of the bracketed form
\* matches
link_label(s, i, hi) ==
    LET j == GreatestUpTo(i + 2, hi,
                [k \in (i + 2)..hi |-> link_tail(s, i, k).ok])
    IN  IF j < i + 2 THEN NoMatch ELSE link_tail(s, i, j)

\* g1 = label, g2 = url of the bracketed form, g3 = bare url
web_link_pattern(s, i) ==
    IF s[i] = "["
    THEN link_label(s, i, SkipUntil(s, i + 1, NL) - 1)
    ELSE LET h == url_head(s, i)
             e == IF h = 0 THEN 0 ELSE SkipUntil(s, h, Space) - 1
         IN  IF h # 0 /\ e >= h
             THEN Match(e + 1, None, None, Slice(s, i, e))
             ELSE NoMatch

linkify_repl(m) ==
    LET s_tag == TagAnchor
        m_tag == TagAttrEnd
        e_tag == TagAnchorEnd
    IN  IF m.g3 # None THEN s_tag \o m.g3 \o m_tag \o m.g3 \o e_tag
        ELSE IF m.g2 # None THEN s_tag \o m.g2 \o m_tag \o m.g1 \o e_tag
        ELSE None

\* ------------------------------------------------------------------------
\* nitro_emote_pattern
\*   &lt;(?P<animated>a)?:(?P<name>[0-9a-zA-Z_]{2,32}):(?P<id>[0-9]{15,21})&gt;
\* ------------------------------------------------------------------------
\* a?:name:id followed by close, tried at index c (right after the opening
\* bracket).  g1 = animated, g2 = name, g3 = id
emote_body(s, c, close) ==
    LET anim == c =< Len(s) /\ s[c] = "a"
        colon == IF anim THEN c + 1 ELSE c
        nEnd == SkipWhile(s, colon + 1, NameChar)
        dEnd == SkipWhile(s, nEnd + 1, Digit)
    IN  IF /\ StartsAt(s, colon, <<":">>)
           /\ nEnd - (colon + 1) >= NameMin
           /\ nEnd - (colon + 1) =< NameMax
           /\ StartsAt(s, nEnd, <<":">>)
           /\ dEnd - (nEnd + 1) >= IdMin
           /\ dEnd - (nEnd + 1) =< IdMax
           /\ StartsAt(s, dEnd, close)
        THEN Match(dEnd + Len(close),
                   IF anim THEN <<"a">> ELSE None,
                   Slice(s, colon + 1, nEnd - 1),
                   Slice(s, nEnd + 1, dEnd - 1))
        ELSE NoMatch

nitro_emote_pattern(s, i) ==
    IF StartsAt(s, i, LT) THEN emote_body(s, i + Len(LT), GT) ELSE NoMatch

emoji_repl(s_tag, m) ==
    LET m1_tag == AttrTitle
        m2_tag == AttrSrc
        e_tag == TagAttrEnd
        emoji_url == IF m.g1 # None
                     THEN EmojiCdn \o m.g3 \o ExtGif
                     ELSE EmojiCdn \o m.g3 \o ExtPng
    IN  s_tag \o m.g2 \o m1_tag \o m.g2 \o m2_tag \o emoji_url \o e_tag

\* a callback that chooses the size class token by token
emojify_repl_per_token(m) ==
    emoji_repl(IF m.g1 # None THEN TagEmojiLarge ELSE TagEmoji, m)

emojify_repl(m) == emoji_repl(TagEmoji, m)

wombojify_repl(m) == emoji_repl(TagEmojiLarge, m)

\* ------------------------------------------------------------------------
\* womboji_pattern, used with findall on the original text
\*   ([a-zA-Z0-9!-;=?-~\s]*)?\s*<a?:[0-9a-zA-Z_]{2,32}:[0-9]{15,21}>\s*([a-zA-Z0-9!-;=?-~\s]*)?
\* ------------------------------------------------------------------------
RECURSIVE womboji_findall(_, _)
\* the list of (group 1, group 2) of the successive matches from index pos.
\* Group 1 is greedy and its class has every whitespace character, so it
\* takes all the text from pos to the token; a search fails for every start
\* up to a character outside the class that does not open a token.
womboji_findall(s, pos) ==
    LET u == SkipWhile(s, pos, WombojiChar)
    IN  IF u > Len(s) THEN <<>>
        ELSE LET t == IF s[u] = "<" THEN emote_body(s, u + 1, <<">">>) ELSE NoMatch
             IN  IF ~t.ok THEN womboji_findall(s, u + 1)
                 ELSE LET w == SkipWhile(s, t.end, Space)
                          g == SkipWhile(s, w, WombojiChar)
                      IN  << <<Slice(s, pos, u - 1), Slice(s, w, g - 1)>> >>
                            \o womboji_findall(s, g)

\* the loop over womboji_matchs
womboji_mode(original_txt) ==
    LET womboji_matchs == womboji_findall(original_txt, 1)
    IN  \A k \in 1..Len(womboji_matchs) :
            ~(womboji_matchs[k][1] # <<>> \/ womboji_matchs[k][2] # <<>>)

\* ------------------------------------------------------------------------
\* The copy of DiscordMarkdown in events/bulkMessageDelete.py: its code
\* block, inline code, strike-through, spoiler, bold, underline and symbol
\* patterns and callbacks are the ones above, character for character; the
\* block quote and italics patterns are its own
\* ------------------------------------------------------------------------
\* ^(?: *>>> ([\s\S]*))|^(?: *> ([^\n]*\n*))   (re.MULTILINE)
bmd_blockQuote_pattern(s, i) ==
    IF ~LineStart(s, i) THEN NoMatch
    ELSE LET RawQuoteTriple == <<">", ">", ">", " ">>
             RawQuoteSingle == <<">", " ">>
             j == SkipWhile(s, i, {" "})
         IN  IF StartsAt(s, j, RawQuoteTriple)
             THEN Match(Len(s) + 1, Slice(s, j + Len(RawQuoteTriple), Len(s)), None, None)
             ELSE IF StartsAt(s, j, RawQuoteSingle)
             THEN LET k == SkipUntil(s, j + Len(RawQuoteSingle), NL)
                      e == SkipWhile(s, k, NL)
                  IN  Match(e, None, Slice(s, j + Len(RawQuoteSingle), e - 1), None)
             ELSE NoMatch

\* (?<!\\)\*(?P<content>.+?)(?<!\\)\*
italics_pattern1(s, i) == delimited_match(s, i, <<"*">>, {})

\* (?<!\\)_(?P<content>.+?)(?<!\\)_
italics_pattern2(s, i) == delimited_match(s, i, <<"_">>, {})

\* ------------------------------------------------------------------------
\* Pattern.sub(repl, string): the leftmost non-overlapping matches are
\* replaced, everything else is copied
\* ------------------------------------------------------------------------
pattern_at(p, s, i) ==
    CASE p = "codeblock" -> codeblock_pattern(s, i)
      [] p = "inline_codeblock" -> inlinecodeblock_pattern(s, i)
      [] p = "remove_suppressed_embed_arrows" -> suppresed_embed_link_pattern(s, i)
      [] p = "blockquote" -> blockQuote_pattern(s, i)
      [] p = "spoiler" -> spoiler_pattern(s, i)
      [] p = "strikethrough" -> strikethrough_pattern(s, i)
      [] p = "bold" -> bold_pattern(s, i)
      [] p = "underline" -> underline_pattern(s, i)
      [] p = "italics" -> italics_pattern(s, i)
      [] p = "linkify" -> web_link_pattern(s, i)
      [] p = "emojify" -> nitro_emote_pattern(s, i)
      [] p = "wombojify" -> nitro_emote_pattern(s, i)
      [] p = "remove_escaped_symbol" -> escaped_symbols_pattern(s, i)

repl_of(p, m) ==
    CASE p = "codeblock" -> codeblock_repl(m)
      [] p = "inline_codeblock" -> inline_codeblock_repl(m)
      [] p = "remove_suppressed_embed_arrows" -> remove_suppressed_embed_arrows_repl(m)
      [] p = "blockquote" -> blockquote_repl(m)
      [] p = "spoiler" -> spoiler_repl(m)
      [] p = "strikethrough" -> strikethrough_repl(m)
      [] p = "bold" -> bold_repl(m)
      [] p = "underline" -> underline_repl(m)
      [] p = "italics" -> italics_repl(m)
      [] p = "linkify" -> linkify_repl(m)
      [] p = "emojify" -> emojify_repl(m)
      [] p = "wombojify" -> wombojify_repl(m)
      [] p = "remove_escaped_symbol" -> remove_escaped_symbol_repl(m)

RECURSIVE sub_from(_, _, _)
\* the scan from index pos: the text up to the next match is copied, the
\* match is replaced and the scan goes on after it
sub_from(p, s, pos) ==
    LET replaced(i, m) ==
            Slice(s, pos, i - 1) \o repl_of(p, m) \o sub_from(p, s, m.end)
        from(i) ==
            IF i > Len(s) THEN Slice(s, pos, Len(s))
            ELSE replaced(i, pattern_at(p, s, i))
    IN  from(LeastFrom(pos, Len(s),
                [k \in pos..Len(s) |-> pattern_at(p, s, k).ok]))

sub(p, s) == sub_from(p, s, 1)

\* a replacement callback returned None to the substitution, which raises
ReturnedNone(out) == \E k \in 1..Len(out) : out[k] = "None"

\* ------------------------------------------------------------------------
\* The passes of DiscordMarkdown
\* ------------------------------------------------------------------------
remove_escaped_symbol(_input) == sub("remove_escaped_symbol", _input)

codeblock(_input) == sub("codeblock", _input)

inline_codeblock(_input) == sub("inline_codeblock", _input)

spoiler(_input) == sub("spoiler", _input)

bold(_input) == sub("bold", _input)

underline(_input) == sub("underline", _input)

italics(_input) == sub("italics", _input)

strikethrough(_input) == sub("strikethrough", _input)

blockquote(_input) == sub("blockquote", _input)

remove_suppressed_embed_arrows(_input) == sub("remove_suppressed_embed_arrows", _input)

linkify(_input) == sub("linkify", _input)

\* the second half of emojify, with the local womboji already computed
emojify_sub(_input, womboji) ==
    IF womboji THEN sub("wombojify", _input) ELSE sub("emojify", _input)

emojify(_input, original_txt) == emojify_sub(_input, womboji_mode(original_txt))

\* the statements with the inline code pass before the code block pass
PassesInlineCodeFirst ==
    << "escape", "inline_codeblock", "codeblock",
       "remove_suppressed_embed_arrows", "blockquote", "spoiler",
       "strikethrough", "bold", "underline", "italics", "linkify",
       "emojify", "emojify_sub", "remove_escaped_symbol" >>

\* the statements with italics between bold and underline
PassesItalicsBeforeUnderline ==
    << "escape", "codeblock", "inline_codeblock",
       "remove_suppressed_embed_arrows", "blockquote", "spoiler",
       "strikethrough", "bold", "italics", "underline", "linkify",
       "emojify", "emojify_sub", "remove_escaped_symbol" >>

\* the statements with italics before bold and underline
PassesItalicsFirst ==
    << "escape", "codeblock", "inline_codeblock",
       "remove_suppressed_embed_arrows", "blockquote", "spoiler",
       "strikethrough", "italics", "bold", "underline", "linkify",
       "emojify", "emojify_sub", "remove_escaped_symbol" >>

\* the statements of markdown, in program order; "emojify" is the mode
\* detection of emojify and "emojify_sub" its substitution
Passes ==
    << "escape", "codeblock", "inline_codeblock",
       "remove_suppressed_embed_arrows", "blockquote", "spoiler",
       "strikethrough", "bold", "underline", "italics", "linkify",
       "emojify", "emojify_sub", "remove_escaped_symbol" >>

\* what the statement named p makes of the buffer
apply_pass(p, buf, original_txt, womboji) ==
    CASE p = "escape" -> escape(original_txt)
      [] p = "emojify" -> buf
      [] p = "emojify_sub" -> emojify_sub(buf, womboji)
      [] OTHER -> sub(p, buf)

RECURSIVE run_from(_, _, _)
\* the statements k.. of markdown run on the buffer buf
run_from(k, buf, original_txt) ==
    IF k > Len(Passes) \/ ReturnedNone(buf) THEN buf
    ELSE run_from(k + 1,
                  apply_pass(Passes[k], buf, original_txt, womboji_mode(original_txt)),
                  original_txt)

\* DiscordMarkdown.markdown as a function of its input
markdown(_input) == run_from(1, _input, _input)

\* ------------------------------------------------------------------------
\* The passes of the copy in events/bulkMessageDelete.py
\* ------------------------------------------------------------------------
RECURSIVE bmd_sub_from(_, _, _)
\* Pattern.subn with a pattern of the copy, from index pos
bmd_sub_from(p, s, pos) ==
    LET search == [k \in pos..Len(s) |->
                CASE p = "blockQuote_pattern" -> bmd_blockQuote_pattern(s, k)
                  [] p = "italics_pattern1" -> italics_pattern1(s, k)
                  [] p = "italics_pattern2" -> italics_pattern2(s, k)]
        repl(m) == IF p = "blockQuote_pattern" THEN blockquote_repl(m)
                   ELSE wrap_repl(TagEm, TagEmEnd, m)
        replaced(i, m) ==
            Slice(s, pos, i - 1) \o repl(m) \o bmd_sub_from(p, s, m.end)
        from(i) ==
            IF i > Len(s) THEN Slice(s, pos, Len(s))
            ELSE replaced(i, search[i])
    IN  from(LeastFrom(pos, Len(s), [k \in pos..Len(s) |-> search[k].ok]))

bmd_blockquote(_input) == bmd_sub_from("blockQuote_pattern", _input, 1)

\* two substitutions, the second over the result of the first
bmd_italics(_input) ==
    LET output == bmd_sub_from("italics_pattern1", _input, 1)
    IN  bmd_sub_from("italics_pattern2", output, 1)

RECURSIVE bmd_run_from(_, _)
\* the statements k.. of markdown in the copy run on the buffer buf; the
\* passes the copy shares with utils/discordMarkdownParser.py are the same
\* substitutions
bmd_run_from(k, buf) ==
    LET statements == << "codeblock", "inline_codeblock", "blockquote",
                         "spoiler", "strikethrough", "bold", "underline",
                         "italics", "remove_escaped_symbol" >>
    IN  IF k > Len(statements) THEN buf
        ELSE bmd_run_from(k + 1,
                CASE statements[k] = "blockquote" -> bmd_blockquote(buf)
                  [] statements[k] = "italics" -> bmd_italics(buf)
                  [] OTHER -> sub(statements[k], buf))

\* what a raise statement leaves in place of a string
TypeError == <<"TypeError">>

\* markdown of the copy: the buffer starts as the input itself, the call of
\* escape being commented out.  The first pass hands the buffer to
\* Pattern.subn, which raises TypeError for None.
bmd_markdown(_input) ==
    LET output0 == _input
    IN  IF output0 = None THEN TypeError ELSE bmd_run_from(1, output0)

\* ------------------------------------------------------------------------
\* Bounds and input texts
\* ------------------------------------------------------------------------
\* the number of calls of markdown that may be in progress at once
NCalls == 2

\* the greatest number of fragments an input text is put together from
MaxFrags == 3

\* the greatest length of a plain word (a label, a content, x, y, z)
MaxWord == 2

Calls == 1..NCalls

\* the words of lo..hi characters over the alphabet A
Words(A, lo, hi) == UNION {[1..k -> A] : k \in lo..hi}

\* the texts put together from at most n fragments of F
FragTexts(F, n) ==
    UNION {{ConcatRange(fs, 1, k) : fs \in [1..k -> F]} : k \in 0..n}

\* a static and an animated custom emoji token
EmojiStatic == <<"<", ":", "a", "b", ":", "1", "2", "3", "4", "5", "6", "7", "8", "9", "0", "1", "2", "3", "4", "5", ">">>

EmojiAnimated == <<"<", "a", ":", "c", "d", ":", "1", "2", "3", "4", "5", "6", "7", "8", "9", "0", "1", "2", "3", "4", "5", ">">>

\* the fragments of the texts of the general specification: one of each
\* construct of the dialect and of each character the escaper rewrites
Frags ==
    { <<"a">>, <<" ">>, <<"\n">>, <<BACKSLASH>>, <<"*">>, <<"_">>,
      <<BACKTICK>>, <<"<">>, <<"&">>, <<">", " ">> }

\* longer texts, one or more for each pass of the pipeline
Corpus ==
    { <<"*", "*", "b", "o", "l", "d", " ", "*", "a", "n", "d", " ", "i", "t", "a", "l", "i", "c", "*", " ", "t", "e", "x", "t", "*", "*">>,
      <<BACKTICK, BACKTICK, BACKTICK, "*", "*", "n", "o", "t", " ", "b", "o", "l", "d", "*", "*", BACKTICK, BACKTICK, BACKTICK>>,
      <<BACKTICK, BACKTICK, BACKTICK, "p", "y", "\n", "x", " ", "=", " ", "1", "\n", BACKTICK, BACKTICK, BACKTICK>>,
      <<"[", "c", "l", "i", "c", "k", " ", "h", "e", "r", "e", "]", "(", "h", "t", "t", "p", "s", ":", "/", "/", "e", "x", "a", "m", "p", "l", "e", ".", "c", "o", "m", ")">>,
      <<">", " ", "*", "a", "*", " ", "h", "t", "t", "p", ":", "/", "/", "b">>,
      <<">", ">", ">", " ", "a", "\n", "b">>,
      <<"<", "h", "t", "t", "p", ":", "/", "/", "a", ">">>,
      <<"|", "|", "a", "|", "|", " ", "~", "~", "b", "~", "~", " ", "_", "_", "c", "_", "_", " ", "_", "d", "_">>,
      <<"<", ":", "a", "b", ":", "1", "2", "3", "4", "5", "6", "7", "8", "9", "0", "1", "2", "3", "4", "5", ">">>,
      <<"x", " ", "<", "a", ":", "c", "d", ":", "1", "2", "3", "4", "5", "6", "7", "8", "9", "0", "1", "2", "3", "4", "5", ">">>,
      <<BACKTICK, "[", "a", BACKTICK, "]", "(", "h", "t", "t", "p", ":", "/", "/", "a", ")">>,
      <<"\"", "'">>,
      <<"\\", "*", "\\", "*", "a", "\\", "*", "\\", "*">>,
      <<BACKTICK, "\\", "*", BACKTICK>>,
      <<BACKTICK, " ", BACKTICK, BACKTICK, BACKTICK, "*", BACKTICK, BACKTICK, BACKTICK, " ", BACKTICK>> }

Inputs == FragTexts(Frags, MaxFrags) \cup Corpus

\* ------------------------------------------------------------------------
\* State: the calls of DiscordMarkdown.markdown in progress
\* ------------------------------------------------------------------------
VARIABLES
    input,      \* input[c]: the argument _input of call c
    output,     \* output[c]: the local buffer output of call c
    pc,         \* pc[c]: the statement call c executes next
    womboji,    \* womboji[c]: the local womboji of emojify in call c
    trace       \* trace[c]: the statements call c has executed, in order

\* None where an object (a message, a user, a channel) is expected
NoneObj == [none |-> TRUE]

\* the greatest number of handlers of message events that run together
NHandlers == 2

Handlers == 1..NHandlers

\* State of the archive and of the handlers of the message events
VARIABLES
    composite,           \* the CompositeMessage whose content is read
    content,             \* what CompositeMessage.content returned, None before
    message_groups,      \* MessageGroups._message_groups
    appended,            \* the messages given to MessageGroups.append so far
    payload,             \* payload[h]: the event handler h was invoked with
    hpc,                 \* hpc[h]: the call handler h waits in
    db,                  \* the rows of the message cache of the database
    db_cached_messages,  \* db_cached_messages[h]: the rows handler h fetched
    frame                \* frame[h]: the other locals of handler h

engine_vars == <<input, output, pc, womboji, trace>>

archive_vars == <<composite, content, message_groups, appended>>

delete_vars == <<payload, hpc, db, db_cached_messages, frame>>

vars == <<input, output, pc, womboji, trace, composite, content, message_groups,
          appended, payload, hpc, db, db_cached_messages, frame>>

\* no archive is being made
ArchiveIdle ==
    /\ composite = NoneObj
    /\ content = None
    /\ message_groups = <<>>
    /\ appended = <<>>

\* the locals of a handler when it is invoked: message_groups and msg_count
\* of the bulk handler, the number of rows its cleanup has deleted,
\* pk_response and attachments
NoLocals ==
    [ message_groups |-> <<>>, msg_count |-> 0, cleaned |-> 0,
      pk_response |-> NoneObj, attachments |-> <<>> ]

\* no handler is running
DeleteIdle ==
    /\ payload = [h \in Handlers |-> NoneObj]
    /\ hpc = [h \in Handlers |-> "idle"]
    /\ db = {}
    /\ db_cached_messages = [h \in Handlers |-> <<>>]
    /\ frame = [h \in Handlers |-> NoLocals]

\* the statement after statement p of markdown
next_pc(p) ==
    LET k == CHOOSE j \in 1..Len(Passes) : Passes[j] = p
    IN  IF k = Len(Passes) THEN "done" ELSE Passes[k + 1]

\* the frame that holds the local womboji of call c: every call of emojify
\* has its own
\* one slot shared by all calls, as an attribute of the class would be
womboji_slot_shared(c) == 1

womboji_slot(c) == c

\* call 1 is made with a text of S; the other calls are not made
InitOne(S) ==
    /\ input \in {[c \in Calls |-> IF c = 1 THEN t ELSE <<>>] : t \in S}
    /\ output = input
    /\ pc = [c \in Calls |-> IF c = 1 THEN Passes[1] ELSE "idle"]
    /\ womboji = [c \in Calls |-> TRUE]
    /\ trace = [c \in Calls |-> <<>>]
    /\ ArchiveIdle
    /\ DeleteIdle

\* every call is made with a text of S
InitAll(S) ==
    /\ input \in [Calls -> S]
    /\ output = input
    /\ pc = [c \in Calls |-> Passes[1]]
    /\ womboji = [c \in Calls |-> TRUE]
    /\ trace = [c \in Calls |-> <<>>]
    /\ ArchiveIdle
    /\ DeleteIdle

\* call c executes statement p, a rewrite of its buffer
Step(c, p) ==
    /\ pc[c] = p
    /\ LET out == apply_pass(p, output[c], input[c], womboji[womboji_slot(c)])
       IN  /\ output' = [output EXCEPT ![c] = out]
           /\ pc' = [pc EXCEPT ![c] = IF ReturnedNone(out) THEN "raised"
                                      ELSE next_pc(p)]
    /\ trace' = [trace EXCEPT ![c] = Append(@, p)]
    /\ UNCHANGED <<input, womboji, archive_vars, delete_vars>>

Escape(c) == Step(c, "escape")

Codeblock(c) == Step(c, "codeblock")

InlineCodeblock(c) == Step(c, "inline_codeblock")

RemoveSuppressedEmbedArrows(c) == Step(c, "remove_suppressed_embed_arrows")

Blockquote(c) == Step(c, "blockquote")

Spoiler(c) == Step(c, "spoiler")

Strikethrough(c) == Step(c, "strikethrough")

Bold(c) == Step(c, "bold")

Underline(c) == Step(c, "underline")

Italics(c) == Step(c, "italics")

Linkify(c) == Step(c, "linkify")

\* the first half of emojify: the size mode, from the original text
EmojifyMode(c) ==
    /\ pc[c] = "emojify"
    /\ womboji' = [womboji EXCEPT ![womboji_slot(c)] = womboji_mode(input[c])]
    /\ pc' = [pc EXCEPT ![c] = next_pc("emojify")]
    /\ trace' = [trace EXCEPT ![c] = Append(@, "emojify")]
    /\ UNCHANGED <<input, output, archive_vars, delete_vars>>

\* the second half of emojify: the substitution
EmojifySub(c) == Step(c, "emojify_sub")

RemoveEscapedSymbol(c) == Step(c, "remove_escaped_symbol")

Next ==
    \E c \in Calls :
        \/ Escape(c)
        \/ Codeblock(c)
        \/ InlineCodeblock(c)
        \/ RemoveSuppressedEmbedArrows(c)
        \/ Blockquote(c)
        \/ Spoiler(c)
        \/ Strikethrough(c)
        \/ Bold(c)
        \/ Underline(c)
        \/ Italics(c)
        \/ Linkify(c)
        \/ EmojifyMode(c)
        \/ EmojifySub(c)
        \/ RemoveEscapedSymbol(c)

Init == InitOne(Inputs)

Spec == Init /\ [][Next]_vars

\* ------------------------------------------------------------------------
\* Predicates on texts used by the properties
\* ------------------------------------------------------------------------
\* t occurs in s as a run of consecutive characters
Contains(s, t) == \E i \in 1..(Len(s) - Len(t) + 1) : StartsAt(s, i, t)

Has(s, c) == \E i \in 1..Len(s) : s[i] = c

Done(c) == pc[c] = "done"

\* ------------------------------------------------------------------------
\* escape_symbols followed by remove_escaped_symbol, on any text
\* ------------------------------------------------------------------------
RtChars == {<<BACKSLASH>>, <<"*">>, <<"<">>, <<"a">>, <<" ">>}

InitRT ==
    /\ input \in {[c \in Calls |-> IF c = 1 THEN t ELSE <<>>] :
                     t \in FragTexts(RtChars, MaxFrags + 1)}
    /\ output = input
    /\ pc = [c \in Calls |-> IF c = 1 THEN "rt_escape" ELSE "idle"]
    /\ womboji = [c \in Calls |-> TRUE]
    /\ trace = [c \in Calls |-> <<>>]
    /\ ArchiveIdle
    /\ DeleteIdle

ProtectSymbols(c) ==
    /\ pc[c] = "rt_escape"
    /\ output' = [output EXCEPT ![c] = escape_symbols(@)]
    /\ pc' = [pc EXCEPT ![c] = "rt_unescape"]
    /\ trace' = [trace EXCEPT ![c] = Append(@, "escape_symbols")]
    /\ UNCHANGED <<input, womboji, archive_vars, delete_vars>>

UnprotectSymbols(c) ==
    /\ pc[c] = "rt_unescape"
    /\ output' = [output EXCEPT ![c] = remove_escaped_symbol(@)]
    /\ pc' = [pc EXCEPT ![c] = "rt_done"]
    /\ trace' = [trace EXCEPT ![c] = Append(@, "remove_escaped_symbol")]
    /\ UNCHANGED <<input, womboji, archive_vars, delete_vars>>

NextRT == \E c \in Calls : ProtectSymbols(c) \/ UnprotectSymbols(c)

SpecRT == InitRT /\ [][NextRT]_vars

\* an EscapeMarker: a backslash right before a character that is neither
\* alphanumeric nor whitespace
HasEscapeMarker(s) ==
    \E i \in 1..(Len(s) - 1) : s[i] = BACKSLASH /\ IsSymbol(s[i + 1])

\* C5: remove_escaped_symbol(escape_symbols(s)) = s for every text s that
\* holds no backslash-symbol sequence.
C5_RoundTrip ==
    \A c \in Calls :
        pc[c] = "rt_done" /\ ~HasEscapeMarker(input[c]) => output[c] = input[c]

\* a round trip is over on a text with symbols to protect and a backslash of
\* its own that is no escape marker
C5_Witness ==
    /\ pc[1] = "rt_done"
    /\ ~HasEscapeMarker(input[1])
    /\ Has(input[1], BACKSLASH)
    /\ Has(input[1], "*")
    /\ Has(input[1], "<")

\* ------------------------------------------------------------------------
\* Properties of the returned fragment
\* ------------------------------------------------------------------------
\* the entities of the initial HTML escape
Entities ==
    { <<"&", "a", "m", "p", ";">>, <<"&", "l", "t", ";">>, <<"&", "g", "t", ";">>,
      <<"&", "#", "3", "9", ";">>, <<"&", "#", "3", "4", ";">> }

\* the literal pieces of the tags the passes emit
EngineTags ==
    { TagCodeLang, TagAttrEnd, TagCodePlain, TagDivEnd, TagInlineCode,
      TagSpanEnd, TagSpoiler, TagStrong, TagStrongEnd, TagU, TagUEnd, TagEm,
      TagEmEnd, TagS, TagSEnd, TagQuote, TagAnchor, TagAnchorEnd, TagEmoji,
      TagEmojiLarge }

\* every & of s opens an entity, every < opens a tag piece of the engine and
\* every > closes one
HtmlSafe(s) ==
    \A i \in 1..Len(s) :
        /\ s[i] = "&" => \E e \in Entities : StartsAt(s, i, e)
        /\ s[i] = "<" => \E t \in EngineTags : StartsAt(s, i, t)
        /\ s[i] = ">" => \E t \in EngineTags : StartsAt(s, i - Len(t) + 1, t)

\* C1: the returned string holds no <, > outside the tags the passes emit
\* and no & that does not open an entity of the initial escape: no raw <, >
\* or & of the input survives.
C1_NoRawHtml == \A c \in Calls : Done(c) => HtmlSafe(output[c])

\* a call returned for an input with <, & and a quote marker, having emitted
\* a tag
C1_Witness ==
    /\ Done(1)
    /\ Has(input[1], "<")
    /\ Has(input[1], "&")
    /\ Has(input[1], ">")
    /\ Contains(output[1], TagQuote)

\* the buffer of markdown after the two code passes
after_code(t) == inline_codeblock(codeblock(escape(t)))

\* C3: the fragment markdown returns holds no EscapeMarker (a backslash
\* followed by a symbol), whether the backslash was typed by the user or put
\* there by escape_symbols inside code.
C3_NoEscapeMarker == \A c \in Calls : Done(c) => ~HasEscapeMarker(output[c])

\* C6: markdown returns for every input: no replacement callback reaches the
\* branch that returns None.
C6_NeverRaises == \A c \in Calls : pc[c] # "raised"

\* a call returned after italics_repl, blockquote_repl and linkify_repl have
\* each replaced a match
C6_Witness ==
    /\ Done(1)
    /\ Contains(output[1], TagEm)
    /\ Contains(output[1], TagQuote)
    /\ Contains(output[1], TagAnchor)

\* C7: a call executes each pass once, in the order of the source, each on
\* the output of the one before, with the emoji size mode taken from the
\* original input.
C7_PassOrder ==
    \A c \in Calls :
        /\ pc[c] \in {"emojify_sub", "remove_escaped_symbol", "done"}
              => womboji[c] = womboji_mode(input[c])
        /\ Done(c) =>
              /\ trace[c] = << "escape", "codeblock", "inline_codeblock",
                               "remove_suppressed_embed_arrows", "blockquote",
                               "spoiler", "strikethrough", "bold", "underline",
                               "italics", "linkify", "emojify", "emojify_sub",
                               "remove_escaped_symbol" >>
              /\ output[c] =
                   remove_escaped_symbol(
                     emojify(
                       linkify(italics(underline(bold(strikethrough(spoiler(
                         blockquote(remove_suppressed_embed_arrows(
                           inline_codeblock(codeblock(escape(input[c]))))))))))),
                       input[c]))

\* a call returned an inline-size emoji: the mode of the original input is
\* inline, that of the escaped buffer would be large
C7_Witness ==
    /\ Done(1)
    /\ ~womboji_mode(input[1])
    /\ womboji_mode(escape(input[1]))
    /\ Contains(output[1], TagEmoji)

\* ------------------------------------------------------------------------
\* Code content
\* ------------------------------------------------------------------------
\* the fragments of the code texts: code delimiters and link syntax
CodeFrags ==
    { <<BACKTICK>>, <<BACKTICK, "[">>, <<"]", "(", "h", "t", "t", "p", ":", "/", "/", "b", ")">>,
      <<"a">>, <<"*">>, <<" ">> }

CodeInputs == FragTexts(CodeFrags, MaxFrags)

InitCode == InitOne(CodeInputs)

SpecCode == InitCode /\ [][Next]_vars

\* the code elements of buffer b: from an opening tag of a code pass to the
\* first closing tag after it
code_elements(b) ==
    LET element(i, open, close) ==
            LET from == i + Len(open)
                e == LeastFrom(from, Len(b), [k \in from..Len(b) |-> StartsAt(b, k, close)])
            IN  Slice(b, i, e + Len(close) - 1)
    IN  { element(i, TagInlineCode, TagSpanEnd) :
            i \in {k \in 1..Len(b) : StartsAt(b, k, TagInlineCode)} }
        \cup
        { element(i, TagCodePlain, TagDivEnd) :
            i \in {k \in 1..Len(b) : StartsAt(b, k, TagCodePlain)} }
        \cup
        { element(i, TagCodeLang, TagDivEnd) :
            i \in {k \in 1..Len(b) : StartsAt(b, k, TagCodeLang)} }

\* C2: every code element the code passes made is in the returned fragment
\* as it was made, its content unprotected and nothing else changed: no later
\* pass consumed a character of the content or put a tag inside the element.
C2_CodeLiteral ==
    \A c \in Calls :
        Done(c) =>
            \A el \in code_elements(after_code(input[c])) :
                Contains(output[c], remove_escaped_symbol(el))

\* ------------------------------------------------------------------------
\* Escaped delimiters
\* ------------------------------------------------------------------------
PlainChars == {"a", " "}

Delimiters ==
    { <<"*", "*">>, <<"_", "_">>, <<"*">>, <<"_">>, <<"~", "~">>, <<"|", "|">>,
      <<BACKTICK>> }

\* delimiter d with a backslash before each of its characters
escaped_delimiter(d) ==
    ConcatRange([k \in 1..Len(d) |-> <<BACKSLASH, d[k]>>], 1, Len(d))

\* an escaped delimiter pair around plain content, and the texts put
\* together from escaped delimiter characters and plain characters
EscInputs ==
    { escaped_delimiter(d) \o w \o escaped_delimiter(d) :
        d \in Delimiters, w \in Words(PlainChars, 1, MaxWord) }
    \cup
    FragTexts({escaped_delimiter(<<ch>>) : ch \in {"*", "_", "~", "|", BACKTICK}}
                  \cup {<<ch>> : ch \in PlainChars},
              MaxFrags + 1)

InitEsc == InitOne(EscInputs)

SpecEsc == InitEsc /\ [][Next]_vars

without_backslash(s) ==
    ConcatRange([k \in 1..Len(s) |-> IF s[k] = BACKSLASH THEN <<>> ELSE <<s[k]>>],
                1, Len(s))

\* C4: a text whose every delimiter character has a backslash before it is
\* returned with the delimiters literal, the backslashes dropped and no
\* element made.
C4_EscapedLiteral ==
    \A c \in Calls :
        Done(c) /\ input[c] \in EscInputs =>
            /\ output[c] = without_backslash(input[c])
            /\ ~Has(output[c], "<")

\* a call returned for an escaped bold pair around content
C4_Witness ==
    /\ Done(1)
    /\ input[1] = <<BACKSLASH, "*", BACKSLASH, "*", "a", BACKSLASH, "*", BACKSLASH, "*">>
    /\ output[1] = <<"*", "*", "a", "*", "*">>

\* ------------------------------------------------------------------------
\* Concurrent calls
\* ------------------------------------------------------------------------
ConcInputs ==
    { EmojiStatic, <<"x", " ">> \o EmojiAnimated, <<"*", "a", "*">> }

InitConc == InitAll(ConcInputs)

SpecConc == InitConc /\ [][Next]_vars

\* C8: whatever the interleaving of the calls, each returns what a call
\* running alone returns for its input, so equal inputs give equal outputs.
C8_Deterministic ==
    \A c \in Calls :
        /\ pc[c] = "emojify_sub" => womboji[womboji_slot(c)] = womboji_mode(input[c])
        /\ Done(c) =>
              /\ output[c] = markdown(input[c])
              /\ \A d \in Calls :
                    Done(d) /\ input[d] = input[c] => output[d] = output[c]

\* two calls returned, one having rendered a large emoji and the other an
\* inline one
C8_Witness ==
    /\ Done(1)
    /\ Done(2)
    /\ Contains(output[1], TagEmojiLarge)
    /\ Contains(output[2], TagEmoji)

\* ------------------------------------------------------------------------
\* Italics inside bold
\* ------------------------------------------------------------------------
\* **x *y* z** with plain x, y and z
NestInputs ==
    { <<"*", "*">> \o x \o <<" ", "*">> \o y \o <<"*", " ">> \o z \o <<"*", "*">> :
        x \in Words(PlainChars, 1, MaxWord),
        y \in Words(PlainChars, 1, MaxWord),
        z \in Words(PlainChars, 1, MaxWord) }

InitNest == InitOne(NestInputs)

SpecNest == InitNest /\ [][Next]_vars

\* the rendering of a text t of NestInputs: the outer pair as strong, the
\* inner pair as em
nested_rendering(t) ==
    LET n == Len(t)
        p == LeastFrom(3, n, [k \in 3..n |-> t[k] = "*"])
        q == LeastFrom(p + 1, n, [k \in (p + 1)..n |-> t[k] = "*"])
    IN  TagStrong \o Slice(t, 3, p - 1) \o TagEm \o Slice(t, p + 1, q - 1)
            \o TagEmEnd \o Slice(t, q + 1, n - 2) \o TagStrongEnd

\* C9: **x *y* z** is returned as <strong>x <em>y</em> z</strong>.
C9_ItalicsInBold ==
    \A c \in Calls :
        Done(c) /\ input[c] \in NestInputs => output[c] = nested_rendering(input[c])

\* a call returned for **a *a* a**
C9_Witness ==
    /\ Done(1)
    /\ input[1] = <<"*", "*", "a", " ", "*", "a", "*", " ", "a", "*", "*">>
    /\ output[1] = TagStrong \o <<"a", " ">> \o TagEm \o <<"a">> \o TagEmEnd
                       \o <<" ", "a">> \o TagStrongEnd

\* ------------------------------------------------------------------------
\* Bracketed links
\* ------------------------------------------------------------------------
UrlChars == {"b", "_", "."}

\* [label](url) with a plain label and an http or https url
LinkInputs ==
    { <<"[">> \o l \o <<"]", "(">> \o h \o SchemeSep \o u \o <<")">> :
        l \in Words(PlainChars, 1, MaxWord),
        h \in {Http, Http \o <<"s">>},
        u \in Words(UrlChars, 1, MaxWord + 1) }

InitLink == InitOne(LinkInputs)

SpecLink == InitLink /\ [][Next]_vars

\* the anchor of a text t of LinkInputs
link_rendering(t) ==
    LET n == Len(t)
        j == LeastFrom(1, n, [k \in 1..n |-> t[k] = "]"])
    IN  TagAnchor \o Slice(t, j + 2, n - 1) \o TagAttrEnd \o Slice(t, 2, j - 1)
            \o TagAnchorEnd

\* C10: a text that is one bracketed link [label](url) is returned as the
\* one anchor <a href="url">label</a>.
C10_LinkPrecedence ==
    \A c \in Calls :
        Done(c) /\ input[c] \in LinkInputs => output[c] = link_rendering(input[c])

\* ------------------------------------------------------------------------
\* Several bracketed links
\* ------------------------------------------------------------------------
\* the bracketed links of the two-link texts and what separates them
LinkSet ==
    { <<"[">> \o l \o <<"]", "(">> \o u \o <<")">> :
        l \in Words({"a"}, 1, MaxWord),
        u \in { Http \o SchemeSep \o <<"b">>, Http \o <<"s">> \o SchemeSep \o <<"d">> } }

LinkSeparators == { <<>>, <<" ">>, <<" ", "a", " ">>, <<"\n">> }

TwoLinkInputs ==
    { k1 \o sep \o k2 : k1 \in LinkSet, sep \in LinkSeparators, k2 \in LinkSet }

InitTwoLinks == InitOne(TwoLinkInputs)

SpecTwoLinks == InitTwoLinks /\ [][Next]_vars

\* the rendering of a text t of TwoLinkInputs: each link as its own anchor
two_link_rendering(t) ==
    LET n == Len(t)
        p == LeastFrom(1, n, [k \in 1..n |-> t[k] = ")"])
        q == LeastFrom(p, n, [k \in p..n |-> t[k] = "["])
    IN  link_rendering(Slice(t, 1, p)) \o Slice(t, p + 1, q - 1)
            \o link_rendering(Slice(t, q, n))

\* C11: each of two bracketed links of a text is returned as its own anchor,
\* with its own url as href and its own label as text, whatever separates
\* them.
C11_EachLinkItsAnchor ==
    \A c \in Calls :
        Done(c) /\ input[c] \in TwoLinkInputs =>
            output[c] = two_link_rendering(input[c])

\* ------------------------------------------------------------------------
\* Bare and suppressed urls
\* ------------------------------------------------------------------------
BareUrls ==
    { h \o SchemeSep \o u :
        h \in {Http, Http \o <<"s">>}, u \in Words(UrlChars, 1, MaxWord + 1) }

InitBare == InitOne(BareUrls)

SpecBare == InitBare /\ [][Next]_vars

\* the anchor of a bare url u
bare_rendering(u) == TagAnchor \o u \o TagAttrEnd \o u \o TagAnchorEnd

\* C12: a text that is one bare http or https url is returned as the anchor
\* whose href and whose text are that url, whatever characters it has.
C12_BareUrlAnchor ==
    \A c \in Calls :
        Done(c) /\ input[c] \in BareUrls =>
            output[c] = bare_rendering(escape(input[c]))

\* <url>, alone or followed by a word
SuppressedTails == { <<>>, <<" ", "a">>, <<"a">> }

SuppressedInputs ==
    { <<"<">> \o u \o <<">">> \o tail : u \in BareUrls, tail \in SuppressedTails }

InitSuppressed == InitOne(SuppressedInputs)

SpecSuppressed == InitSuppressed /\ [][Next]_vars

\* C13: the unwrap pass replaces <url> by url, and the returned fragment has
\* the anchor of url in its place.
C13_SuppressedUnwrap ==
    \A c \in Calls :
        input[c] \in SuppressedInputs =>
            LET t == input[c]
                g == LeastFrom(1, Len(t), [k \in 1..Len(t) |-> t[k] = ">"])
                u == Slice(t, 2, g - 1)
                tail == Slice(t, g + 1, Len(t))
            IN  /\ pc[c] = next_pc("remove_suppressed_embed_arrows")
                      => output[c] = u \o tail
                /\ Done(c) => output[c] = bare_rendering(u) \o tail

\* ------------------------------------------------------------------------
\* Custom emoji
\* ------------------------------------------------------------------------
EmojiId == <<"1", "2", "3", "4", "5", "6", "7", "8", "9", "0", "1", "2", "3", "4", "5">>

\* one token <:name:id> or <a:name:id>, the name of letters and underscores
TokenInputs ==
    { <<"<">> \o a \o <<":">> \o name \o <<":">> \o EmojiId \o <<">">> :
        a \in {<<>>, <<"a">>}, name \in Words({"a", "_"}, NameMin, MaxWord + 1) }

\* texts of tokens, whitespace and punctuation, with a token
LargeInputs ==
    { t \in FragTexts({EmojiStatic, EmojiAnimated, <<" ">>, <<"\n">>, <<"!">>}, MaxFrags) :
        Has(t, ":") }

\* texts of tokens, whitespace, angle brackets and the word x, with a token
\* and a word
InlineInputs ==
    { t \in FragTexts({EmojiStatic, EmojiAnimated, <<" ">>, <<"x">>, <<"<">>, <<">">>},
                      MaxFrags) :
        Has(t, ":") /\ Has(t, "x") }

EmojiInputs == TokenInputs \cup LargeInputs \cup InlineInputs

InitEmoji == InitOne(EmojiInputs)

SpecEmoji == InitEmoji /\ [][Next]_vars

\* the image of token t with size class tag s_tag
token_rendering(s_tag, t) ==
    LET n == Len(t)
        p == LeastFrom(1, n, [k \in 1..n |-> t[k] = ":"])
        q == LeastFrom(p + 1, n, [k \in (p + 1)..n |-> t[k] = ":"])
        name == Slice(t, p + 1, q - 1)
        id == Slice(t, q + 1, n - 1)
    IN  s_tag \o name \o AttrTitle \o name \o AttrSrc \o EmojiCdn \o id
            \o (IF t[2] = "a" THEN ExtGif ELSE ExtPng) \o TagAttrEnd

\* C14: a text that is one custom emoji token is returned as one image with
\* the name as alt and title and the CDN address of the id as src, .gif for
\* an animated token and .png otherwise.
C14_TokenImage ==
    \A c \in Calls :
        Done(c) /\ input[c] \in TokenInputs =>
            \E s_tag \in {TagEmoji, TagEmojiLarge} :
                output[c] = token_rendering(s_tag, input[c])

\* C15: a text of tokens, whitespace and punctuation only is returned with
\* every emoji of the large class.
C15_LargeMode ==
    \A c \in Calls :
        Done(c) /\ input[c] \in LargeInputs =>
            /\ Contains(output[c], TagEmojiLarge)
            /\ ~Contains(output[c], TagEmoji)

\* C16: a text with a word besides its tokens is returned with every emoji
\* of the inline class.
C16_InlineMode ==
    \A c \in Calls :
        Done(c) /\ input[c] \in InlineInputs =>
            /\ Contains(output[c], TagEmoji)
            /\ ~Contains(output[c], TagEmojiLarge)

\* C17: the returned fragment never holds emoji of both size classes.
C17_OneSizePerMessage ==
    \A c \in Calls :
        Done(c) => ~(Contains(output[c], TagEmoji) /\ Contains(output[c], TagEmojiLarge))

\* a call returned two inline emoji, one static and one animated
C17_Witness ==
    /\ Done(1)
    /\ Contains(input[1], EmojiStatic)
    /\ Contains(input[1], EmojiAnimated)
    /\ Contains(output[1], TagEmoji \o <<"a", "b">>)
    /\ Contains(output[1], TagEmoji \o <<"c", "d">>)

\* ------------------------------------------------------------------------
\* Unbalanced markup, whitespace, plain pairs
\* ------------------------------------------------------------------------
UnbalancedChars == {"a", " ", "\n", "<"}

\* an opening ** with no other asterisk in the text
UnbalancedInputs ==
    { u \o <<"*", "*">> \o v :
        u \in Words(UnbalancedChars, 0, MaxWord), v \in Words(UnbalancedChars, 0, MaxWord) }

InitUnbalanced == InitOne(UnbalancedInputs)

SpecUnbalanced == InitUnbalanced /\ [][Next]_vars

\* C18: a text with an opening ** that is never closed is returned, without
\* an exception, as its escaped text: both asterisks literal, no strong and
\* no em element.
C18_UnbalancedLiteral ==
    \A c \in Calls :
        /\ pc[c] # "raised"
        /\ Done(c) /\ input[c] \in UnbalancedInputs =>
              /\ output[c] = escape(input[c])
              /\ Contains(output[c], <<"*", "*">>)
              /\ ~Contains(output[c], TagStrong)
              /\ ~Contains(output[c], TagEm)

\* a call returned for a text with content on the line after the opening **
C18_Witness ==
    /\ Done(1)
    /\ input[1] = <<"a", " ", "*", "*", "a", "a">>
    /\ output[1] = input[1]

\* a space, a tab, a line feed and the no-break space U+00A0
WhitespaceChars == {" ", "\t", "\n", " "}

WhitespaceInputs == Words(WhitespaceChars, 0, MaxWord + 2)

InitWhitespace == InitOne(WhitespaceInputs)

SpecWhitespace == InitWhitespace /\ [][Next]_vars

\* C19: the empty text and every text of whitespace characters only
\* (spaces, tabs, line feeds, no-break spaces) is returned as it is.
C19_WhitespaceUnchanged ==
    \A c \in Calls :
        Done(c) /\ input[c] \in WhitespaceInputs => output[c] = input[c]

\* a call returned for a text with a space, a tab and a line feed
C19_Witness ==
    /\ Done(1)
    /\ Has(input[1], " ")
    /\ Has(input[1], "\t")
    /\ Has(input[1], "\n")
    /\ output[1] = input[1]

\* the delimiter pairs and their elements
PairElements ==
    { << <<"|", "|">>, TagSpoiler, TagSpanEnd >>,
      << <<"~", "~">>, TagS, TagSEnd >>,
      << <<"*", "*">>, TagStrong, TagStrongEnd >>,
      << <<"_", "_">>, TagU, TagUEnd >>,
      << <<"*">>, TagEm, TagEmEnd >>,
      << <<"_">>, TagEm, TagEmEnd >> }

\* a delimiter pair around plain content, as the triple of the text, the
\* delimiter and the content
PairCases ==
    { << e[1] \o w \o e[1], e, w >> : e \in PairElements, w \in Words(PlainChars, 1, MaxWord) }

PairInputs == { x[1] : x \in PairCases }

InitPair == InitOne(PairInputs)

SpecPair == InitPair /\ [][Next]_vars

\* C20: a delimiter pair around plain content is returned as the element of
\* the pair around the content and nothing else; ** and __ give no em.
C20_PairElement ==
    \A c \in Calls :
        Done(c) =>
            \A x \in PairCases :
                input[c] = x[1] =>
                    /\ output[c] = x[2][2] \o x[3] \o x[2][3]
                    /\ Len(x[2][1]) = 2 => ~Contains(output[c], TagEm)

\* a call returned an underline element for __a__
C20_Witness ==
    /\ Done(1)
    /\ input[1] = <<"_", "_", "a", "_", "_">>
    /\ output[1] = TagU \o <<"a">> \o TagUEnd

\* ------------------------------------------------------------------------
\* Block quotes
\* ------------------------------------------------------------------------
\* plain lines, then a line that opens with >>> , then any text of words,
\* line feeds and quote markers
TripleInputs ==
    { p \o sp \o <<">", ">", ">", " ">> \o r :
        p \in { <<>>, <<"a", "\n">>, <<"a", "\n", "\n">> },
        sp \in { <<>>, <<" ">> },
        r \in FragTexts({ <<"a">>, <<"\n">>, <<" ">>, <<">", " ">>, <<">", ">", ">", " ">> },
                        MaxFrags) }

InitTriple == InitOne(TripleInputs)

SpecTriple == InitTriple /\ [][Next]_vars

\* the index of the first character of the line of index k of t
line_start(t, k) == GreatestUpTo(1, k - 1, [j \in 1..(k - 1) |-> t[j] = "\n"]) + 1

\* the rendering of a text t of TripleInputs: the text before the line of
\* the first marker, then one quote element with all that follows the marker
triple_rendering(t) ==
    LET i == SkipUntil(t, 1, {">"})
    IN  escape(Slice(t, 1, line_start(t, i) - 1)) \o TagQuote
            \o escape(Slice(t, i + 4, Len(t))) \o TagDivEnd

\* C21: when a line opens with >>> , the block quote pass wraps all that
\* follows the marker, to the end of the buffer, in one quote element, makes
\* no other quote element and leaves the text before that line as it is.
C21_TripleQuote ==
    \A c \in Calls :
        input[c] \in TripleInputs /\ pc[c] \in {next_pc("blockquote"), "done"} =>
            /\ output[c] = triple_rendering(input[c])
            /\ Cardinality({k \in 1..Len(output[c]) : StartsAt(output[c], k, TagQuote)}) = 1

\* a call returned one quote element that holds a later line with a single
\* marker and a later line with a triple marker
C21_Witness ==
    /\ Done(1)
    /\ input[1] = <<"a", "\n", ">", ">", ">", " ", "\n", ">", " ", ">", ">", ">", " ">>
    /\ output[1] = <<"a", "\n">> \o TagQuote \o <<"\n">> \o GT \o <<" ">>
                       \o GT \o GT \o GT \o <<" ">> \o TagDivEnd

\* texts of words, line feeds, spaces and single markers
SingleInputs ==
    FragTexts({ <<">", " ", "a">>, <<"a">>, <<"\n">>, <<" ">> }, MaxFrags + 1)

InitSingle == InitOne(SingleInputs)

SpecSingle == InitSingle /\ [][Next]_vars

\* whether the line that starts at index l of t opens with > after spaces
single_quoted(t, l) == StartsAt(t, SkipWhile(t, l, {" "}), <<">", " ">>)

\* the rendering of a text t of SingleInputs, line by line: a line that
\* opens with > becomes one quote element of its text after the marker,
\* without its line feed; every other character stays
single_rendering(t) ==
    LET piece(k) ==
            LET l == line_start(t, k)
                m == SkipWhile(t, l, {" "})
            IN  IF ~single_quoted(t, l) THEN escape_char(t[k])
                ELSE (IF k = l THEN TagQuote ELSE <<>>)
                     \o (IF k =< m + 1 THEN <<>>
                         ELSE IF t[k] = "\n" THEN TagDivEnd
                         ELSE escape_char(t[k]))
    IN  ConcatRange([k \in 1..Len(t) |-> piece(k)], 1, Len(t))
            \o (IF single_quoted(t, line_start(t, Len(t) + 1)) THEN TagDivEnd ELSE <<>>)

\* C22: the block quote pass replaces each line that opens with > by one
\* quote element of that line's text after the marker, strips only that
\* line's own line feed and removes no character of any other line.
C22_SingleQuote ==
    \A c \in Calls :
        input[c] \in SingleInputs /\ pc[c] = next_pc("blockquote") =>
            output[c] = single_rendering(input[c])

\* ------------------------------------------------------------------------
\* Code block class
\* ------------------------------------------------------------------------
CodeBodyChars == {"a", "-", " ", "\n"}

\* for the text x between two fences: whether it opens with a language tag
\* and a line feed, and the first and last index of the body without its
\* leading and trailing line feeds
fence_tagged(x) ==
    LET nl == SkipUntil(x, 1, NL)
    IN  nl > 1 /\ nl =< Len(x) /\ \A k \in 1..(nl - 1) : x[k] \in LangChar

fence_body_first(x) ==
    SkipWhile(x, IF fence_tagged(x) THEN SkipUntil(x, 1, NL) ELSE 1, NL)

fence_body_last(x) ==
    GreatestUpTo(1, Len(x), [k \in 1..Len(x) |-> x[k] # "\n"])

\* the text x between two fences has a body: a character other than a line
\* feed after the tag, or anywhere when there is no tag
fence_has_body(x) == fence_body_first(x) =< fence_body_last(x)

\* one fenced block around any text of these characters
CodeBlockInputs ==
    { Fence \o x \o Fence : x \in Words(CodeBodyChars, 1, MaxWord + 2) }

InitCodeBlock == InitOne(CodeBlockInputs)

SpecCodeBlock == InitCodeBlock /\ [][Next]_vars

\* the element of a text t of CodeBlockInputs around its body without the
\* leading and trailing line feeds (the empty body when there is none)
code_rendering(t, protect) ==
    LET x == Slice(t, Len(Fence) + 1, Len(t) - Len(Fence))
        body == Slice(x, fence_body_first(x), fence_body_last(x))
        s_tag == IF fence_tagged(x)
                 THEN TagCodeLang \o Slice(x, 1, SkipUntil(x, 1, NL) - 1) \o TagAttrEnd
                 ELSE TagCodePlain
    IN  s_tag \o (IF protect THEN escape_symbols(body) ELSE body) \o TagDivEnd

\* the element of a text t of CodeBlockInputs without a body: the content
\* of the block is one character at least, so a tag followed by one line
\* feed only is the content of a block without tag, and of line feeds only
\* one is kept
code_rendering_no_body(t, protect) ==
    LET x == Slice(t, Len(Fence) + 1, Len(t) - Len(Fence))
        tag == Slice(x, 1, SkipUntil(x, 1, NL) - 1)
    IN  IF fence_tagged(x) /\ Len(x) = Len(tag) + 1
        THEN TagCodePlain \o (IF protect THEN escape_symbols(tag) ELSE tag) \o TagDivEnd
        ELSE (IF fence_tagged(x) THEN TagCodeLang \o tag \o TagAttrEnd ELSE TagCodePlain)
             \o <<"\n">> \o TagDivEnd

\* C23 as claimed: a fenced block with a language tag and a line feed after
\* the opening fence is returned with class language-<tag> and the tag left
\* out of the body, one without with class nohighlight, both without the
\* leading and trailing line feeds of the body.
C23_CodeBlockClass ==
    \A c \in Calls :
        input[c] \in CodeBlockInputs =>
            /\ pc[c] = next_pc("codeblock") => output[c] = code_rendering(input[c], TRUE)
            /\ Done(c) => output[c] = code_rendering(input[c], FALSE)

\* C23 as amended: the claim holds for every fenced block with a body, that
\* is, with a character other than a line feed after the tag and its line
\* feed (anywhere, without a tag).  Without a body the content keeps one
\* character: a tag followed by one line feed only is returned as the body
\* of a nohighlight block, and a body of line feeds only keeps one line
\* feed, in a language-<tag> block after a tag and a nohighlight block
\* otherwise.
C23_CodeBlockClassOfBody ==
    \A c \in Calls :
        input[c] \in CodeBlockInputs =>
            LET x == Slice(input[c], Len(Fence) + 1, Len(input[c]) - Len(Fence))
                rendering(protect) ==
                    IF fence_has_body(x) THEN code_rendering(input[c], protect)
                    ELSE code_rendering_no_body(input[c], protect)
            IN  /\ pc[c] = next_pc("codeblock") => output[c] = rendering(TRUE)
                /\ Done(c) => output[c] = rendering(FALSE)

\* a call returned a block with a language tag whose body had a line feed
\* after it
C23_Witness ==
    /\ Done(1)
    /\ input[1] = Fence \o <<"a", "\n", "-", "\n">> \o Fence
    /\ output[1] = TagCodeLang \o <<"a">> \o TagAttrEnd \o <<"-">> \o TagDivEnd

\* ------------------------------------------------------------------------
\* Round trip on any text
\* ------------------------------------------------------------------------
\* C24: remove_escaped_symbol(escape_symbols(s)) = s for every text s, with
\* or without backslashes in it.
C24_RoundTripAll ==
    \A c \in Calls : pc[c] = "rt_done" => output[c] = input[c]

\* a round trip is over on a text with a backslash-symbol pair and two
\* backslashes in a row
C24_Witness ==
    /\ pc[1] = "rt_done"
    /\ Contains(input[1], <<BACKSLASH, "*">>)
    /\ Contains(input[1], <<BACKSLASH, BACKSLASH>>)
    /\ output[1] = input[1]

\* ------------------------------------------------------------------------
\* Nesting of the emitted tags
\* ------------------------------------------------------------------------
\* texts of delimiter runs and a word
RunInputs ==
    FragTexts({ <<"*">>, <<"*", "*">>, <<"*", "*", "*">>, <<"_">>, <<"_", "_", "_">>,
                <<"x">> }, MaxFrags)

InitRuns == InitOne(RunInputs)

SpecRuns == InitRuns /\ [][Next]_vars

RECURSIVE tags_nested(_, _, _)
\* whether the tags of s from index i on close the elements of stack, last
\* opened first, and open and close further elements in the same way; img
\* has no closing tag
tags_nested(s, i, stack) ==
    LET j == SkipUntil(s, i, {"<"})
    IN  IF j > Len(s) THEN stack = <<>>
        ELSE LET closing == j < Len(s) /\ s[j + 1] = "/"
                 from == IF closing THEN j + 2 ELSE j + 1
                 name == Slice(s, from, SkipUntil(s, from, {" ", ">"}) - 1)
             IN  IF closing
                 THEN /\ stack # <<>>
                      /\ stack[Len(stack)] = name
                      /\ tags_nested(s, j + 1, SubSeq(stack, 1, Len(stack) - 1))
                 ELSE IF name = <<"i", "m", "g">> THEN tags_nested(s, j + 1, stack)
                 ELSE tags_nested(s, j + 1, Append(stack, name))

\* C25: the tags of the returned fragment are balanced and properly nested.
C25_TagsNested ==
    \A c \in Calls : Done(c) => tags_nested(output[c], 1, <<>>)

\* ------------------------------------------------------------------------
\* CompositeMessage (events/bulkMessageDelete.py)
\* ------------------------------------------------------------------------
\* db.CachedMessage, a row of the message cache as db.cache_message stores
\* it: the details of PluralKit are empty until
\* db.update_cached_message_pk_details fills them.  An optional number is
\* NoneObj or the record [id |-> number].
CachedMessage(message_id, user_id, message_content, attachments, webhook_author_name) ==
    [ message_id |-> message_id,
      user_id |-> user_id,
      content |-> message_content,
      attachments |-> attachments,
      webhook_author_name |-> webhook_author_name,
      system_pkid |-> None,
      member_pkid |-> None,
      pk_system_account_id |-> NoneObj ]

\* discord.Message, a message of the memory cache
Message(id, author, message_content) ==
    [id |-> id, author |-> author, content |-> message_content]

\* CompositeMessage.__init__: bot is a record whose field get_user is the
\* answer bot.get_user gives for the user id of the database row, NoneObj
\* when the client does not know the user; mem_message is NoneObj or a
\* Message, db_message is NoneObj or a CachedMessage
CompositeMessage(bot, message_id, mem_message, db_message) ==
    [ bot |-> bot,
      _msg_id |-> message_id,
      mem_msg |-> mem_message,
      db_msg |-> db_message,
      exists |-> (mem_message # NoneObj \/ db_message # NoneObj),
      _author |-> IF db_message = NoneObj /\ mem_message = NoneObj THEN NoneObj
                  ELSE IF mem_message # NoneObj THEN mem_message.author
                  ELSE bot.get_user ]

\* the property content: the string handed to Markup, or the TypeError
\* markdown raises for the content None of a database row (Markup is not
\* reached then)
CompositeMessage_content(self) ==
    IF self.db_msg = NoneObj /\ self.mem_msg = NoneObj
    THEN << "M", "e", "s", "s", "a", "g", "e", " ", "w", "a", "s", " ", "n",
            "o", "t", " ", "i", "n", " ", "t", "h", "e", " ", "c", "a", "c",
            "h", "e" >>
    ELSE LET out == IF self.mem_msg # NoneObj THEN self.mem_msg.content
                    ELSE self.db_msg.content
             markdowned == bmd_markdown(out)
         IN  markdowned

\* the property author: what it returns and the message it leaves, whose
\* _author it looks up again and rewrites when it was None
CompositeMessage_author(self) ==
    LET looked_up ==
            [self EXCEPT !._author = IF self.mem_msg # NoneObj
                                     THEN self.mem_msg.author
                                     ELSE self.bot.get_user]
    IN  IF self.db_msg = NoneObj /\ self.mem_msg = NoneObj
        THEN [author |-> NoneObj, self |-> self]
        ELSE IF self._author = NoneObj
        THEN [author |-> looked_up._author, self |-> looked_up]
        ELSE [author |-> self._author, self |-> self]

\* the engine is not called
EngineIdle ==
    /\ input = [c \in Calls |-> <<>>]
    /\ output = input
    /\ pc = [c \in Calls |-> "idle"]
    /\ womboji = [c \in Calls |-> TRUE]
    /\ trace = [c \in Calls |-> <<>>]

\* the archive template reads message.content
ReadContent ==
    /\ composite # NoneObj
    /\ content = None
    /\ content' = CompositeMessage_content(composite)
    /\ UNCHANGED <<engine_vars, composite, message_groups, appended, delete_vars>>

\* ------------------------------------------------------------------------
\* Stored contents with the characters of HTML
\* ------------------------------------------------------------------------
StoredChars == {"<", ">", "&", "a", "*", " "}

StoredTexts == FragTexts({<<c>> : c \in StoredChars}, MaxFrags)

\* a user of the guild
SomeAuthor == [id |-> 1, name |-> "a"]

\* the message is in memory, in the database (with a content, or with an
\* attachment and the content None), in both (with another content in the
\* database) or in neither
StoredComposites ==
    {CompositeMessage([get_user |-> NoneObj], 1, Message(1, SomeAuthor, t), NoneObj) :
        t \in StoredTexts}
    \cup {CompositeMessage([get_user |-> SomeAuthor], 1, NoneObj,
                           CachedMessage(1, 1, t, None, None)) :
        t \in StoredTexts}
    \cup {CompositeMessage([get_user |-> SomeAuthor], 1, Message(1, SomeAuthor, t),
                           CachedMessage(1, 1, <<"d">>, None, None)) :
        t \in StoredTexts}
    \cup {CompositeMessage([get_user |-> SomeAuthor], 1, NoneObj,
                            CachedMessage(1, 1, None, <<"f">>, None)),
          CompositeMessage([get_user |-> NoneObj], 1, NoneObj,
                           CachedMessage(1, 1, None, <<"f">>, <<"w">>))}
    \cup {CompositeMessage([get_user |-> NoneObj], 1, NoneObj, NoneObj)}

InitContent ==
    /\ EngineIdle
    /\ composite \in StoredComposites
    /\ content = None
    /\ message_groups = <<>>
    /\ appended = <<>>
    /\ DeleteIdle

NextContent == ReadContent

SpecContent == InitContent /\ [][NextContent]_vars

\* C26: the string CompositeMessage.content wraps in Markup holds no <, > or
\* & of the stored content unescaped: every & opens an entity and every <
\* and > belongs to a tag of the passes.
C26_ContentEscaped ==
    (composite # NoneObj /\ content # None /\ content # TypeError) => HtmlSafe(content)

\* ------------------------------------------------------------------------
\* The two copies of the engine on one text
\* ------------------------------------------------------------------------
\* texts with no <, >, &, quote or URL: stars, underscores, a word, a space
\* and the two italics forms
AgreeFrags ==
    { <<"*">>, <<"_">>, <<"a">>, <<" ">>, <<"*", "*">>,
      <<"*", "a", "*">>, <<"_", "a", "_">> }

AgreeInputs == FragTexts(AgreeFrags, MaxFrags)

\* markdown of utils/discordMarkdownParser.py is called with the text the
\* deleted message holds
InitAgree ==
    /\ \E t \in AgreeInputs :
        /\ input = [c \in Calls |-> IF c = 1 THEN t ELSE <<>>]
        /\ composite = CompositeMessage([get_user |-> NoneObj], 1,
                                        Message(1, SomeAuthor, t), NoneObj)
    /\ output = input
    /\ pc = [c \in Calls |-> IF c = 1 THEN Passes[1] ELSE "idle"]
    /\ womboji = [c \in Calls |-> TRUE]
    /\ trace = [c \in Calls |-> <<>>]
    /\ content = None
    /\ message_groups = <<>>
    /\ appended = <<>>
    /\ DeleteIdle

NextAgree == Next \/ ReadContent

SpecAgree == InitAgree /\ [][NextAgree]_vars

\* C27: for a text with none of < > & " ' and no URL, markdown of the copy
\* in events/bulkMessageDelete.py returns the string markdown of
\* utils/discordMarkdownParser.py returns, texts that mix *...* and _..._
\* included.
C27_EnginesAgree ==
    (Done(1) /\ content # None) => content = output[1]

\* ------------------------------------------------------------------------
\* MessageGroup and MessageGroups (events/bulkMessageDelete.py)
\* ------------------------------------------------------------------------
\* what a raise statement leaves in place of a value
ValueError == [raised |-> "ValueError"]

AttributeError == [raised |-> "AttributeError"]

\* the properties user_name_and_discrim and display_name read the name of
\* self._author, after one more look-up when it is None, unless the message
\* is uncached or carries a webhook name
CompositeMessage_names_raise(self) ==
    /\ ~(self.db_msg = NoneObj /\ self.mem_msg = NoneObj)
    /\ ~(self.db_msg # NoneObj /\ self.db_msg.webhook_author_name # None)
    /\ CompositeMessage_author(self).self._author = NoneObj

\* MessageGroup.__init__: the group holds the message as the reads of its
\* author left it
MessageGroup(message) ==
    LET read == CompositeMessage_author(message)
    IN  IF CompositeMessage_names_raise(read.self) THEN AttributeError
        ELSE [ messages |-> <<read.self>>,
               uncached_group |-> ~message.exists,
               author |-> read.author ]

\* MessageGroup.append: the group after the call, or ValueError
MessageGroup_append(self, message) ==
    LET read == CompositeMessage_author(message)
    IN  IF ~message.exists /\ self.uncached_group
        THEN [self EXCEPT !.messages = Append(@, message)]
        ELSE IF /\ read.author # NoneObj
                /\ self.author # NoneObj
                /\ self.author.id = self.author.id
                /\ read.author.name = self.author.name
        THEN [self EXCEPT !.messages = Append(@, read.self)]
        ELSE ValueError

\* an append that puts the new group in the place of the last one
MessageGroups_append_replacing(self, message) ==
    LET Returned(_message_groups) ==
            [_message_groups |-> _message_groups, raised |-> NoneObj]
        Raised(exception) == [_message_groups |-> self, raised |-> exception]
    IN  IF Len(self) = 0
        THEN IF MessageGroup(message) = AttributeError THEN Raised(AttributeError)
             ELSE Returned(Append(self, MessageGroup(message)))
        ELSE LET last == MessageGroup_append(self[Len(self)], message)
             IN  IF last # ValueError
                 THEN Returned([self EXCEPT ![Len(self)] = last])
                 ELSE IF MessageGroup(message) = AttributeError
                 THEN Raised(AttributeError)
                 ELSE Returned([self EXCEPT ![Len(self)] = MessageGroup(message)])

\* MessageGroups.append on the list self: the list the call leaves and the
\* exception that left it, NoneObj when it returned
MessageGroups_append(self, message) ==
    LET Returned(_message_groups) ==
            [_message_groups |-> _message_groups, raised |-> NoneObj]
        Raised(exception) == [_message_groups |-> self, raised |-> exception]
    IN  IF Len(self) = 0
        THEN IF MessageGroup(message) = AttributeError THEN Raised(AttributeError)
             ELSE Returned(Append(self, MessageGroup(message)))
        ELSE LET last == MessageGroup_append(self[Len(self)], message)
             IN  IF last # ValueError
                 THEN Returned([self EXCEPT ![Len(self)] = last])
                 ELSE IF MessageGroup(message) = AttributeError
                 THEN Raised(AttributeError)
                 ELSE Returned(Append(self, MessageGroup(message)))

\* the greatest number of calls of MessageGroups.append
MaxMessages == 3

\* the users of the guild: two ids, two names
Authors == {[id |-> i, name |-> n] : i \in 1..2, n \in {"a", "b"}}

\* the messages with id message_id the handler can build: uncached, held in
\* memory, or held in the database with the user found, with a webhook name
\* and no user, or with neither; and a message of the database whose user
\* the client did not know when the message was built and knows now
CompositesOf(message_id) ==
    {CompositeMessage([get_user |-> NoneObj], message_id, NoneObj, NoneObj)}
    \cup {CompositeMessage([get_user |-> NoneObj], message_id,
                           Message(message_id, u, <<"a">>), NoneObj) : u \in Authors}
    \cup {CompositeMessage([get_user |-> u], message_id, NoneObj,
                           CachedMessage(message_id, 1, <<"a">>, None, None)) :
            u \in {SomeAuthor, NoneObj}}
    \cup {CompositeMessage([get_user |-> NoneObj], message_id, NoneObj,
                           CachedMessage(message_id, 1, <<"a">>, None, <<"w">>))}
    \cup {[CompositeMessage([get_user |-> NoneObj], message_id, NoneObj,
                            CachedMessage(message_id, 1, <<"a">>, None, None))
            EXCEPT !.bot = [get_user |-> SomeAuthor]]}

\* message_groups.append(comp_msg); appended keeps every call and whether it
\* returned
AppendMessage ==
    /\ Len(appended) < MaxMessages
    /\ \E message \in CompositesOf(Len(appended) + 1) :
        LET after == MessageGroups_append(message_groups, message)
        IN  /\ message_groups' = after._message_groups
            /\ appended' = Append(appended, [message |-> message,
                                             returned |-> after.raised = NoneObj])
    /\ UNCHANGED <<engine_vars, composite, content, delete_vars>>

InitGroups ==
    /\ EngineIdle
    /\ ArchiveIdle
    /\ DeleteIdle

NextGroups == AppendMessage

SpecGroups == InitGroups /\ [][NextGroups]_vars

\* the ids of the messages of the groups, in group order: the id tells which
\* of the appended objects a message of a group is
grouped_messages(groups) ==
    ConcatRange([k \in 1..Len(groups) |->
                    [i \in 1..Len(groups[k].messages) |-> groups[k].messages[i]._msg_id]],
                1, Len(groups))

\* the ids of the messages of the calls that returned, in call order
returned_messages(calls) ==
    ConcatRange([k \in 1..Len(calls) |->
                    IF calls[k].returned THEN <<calls[k].message._msg_id>> ELSE <<>>],
                1, Len(calls))

\* both messages are uncached, or both have an author and the ids are equal
same_author(m1, m2) ==
    \/ ~m1.exists /\ ~m2.exists
    \/ /\ m1._author # NoneObj
       /\ m2._author # NoneObj
       /\ m1._author.id = m2._author.id

\* C28: all messages of one MessageGroup come from the same author: their
\* authors have the same id, or they are all uncached.
C28_OneAuthorPerGroup ==
    \A g \in 1..Len(message_groups) :
        \A i, j \in 1..Len(message_groups[g].messages) :
            i < j => same_author(message_groups[g].messages[i], message_groups[g].messages[j])

\* the step adds one message to the last group or starts a new last group
\* with it, and leaves every other group as it was
grows_at_the_end ==
    LET n == Len(message_groups)
        m == appended'[Len(appended')].message._msg_id
        ids(group) == [i \in 1..Len(group.messages) |-> group.messages[i]._msg_id]
    IN  \/ /\ n > 0
           /\ Len(message_groups') = n
           /\ \A k \in 1..(n - 1) : message_groups'[k] = message_groups[k]
           /\ ids(message_groups'[n]) = Append(ids(message_groups[n]), m)
        \/ /\ Len(message_groups') = n + 1
           /\ \A k \in 1..n : message_groups'[k] = message_groups[k]
           /\ ids(message_groups'[n + 1]) = <<m>>

\* C29: after any calls of MessageGroups.append no group is empty and the
\* messages of the groups, in group order, are exactly the messages of the
\* calls that returned, in call order; a call changes the groups only by
\* adding its message to the last group or by starting a new last group.
C29_GroupsPartitionAppended ==
    /\ [](/\ \A g \in 1..Len(message_groups) : Len(message_groups[g].messages) > 0
          /\ grouped_messages(message_groups) = returned_messages(appended))
    /\ [][message_groups' # message_groups => grows_at_the_end]_vars

\* every call returned and they left two groups, the first with two
\* messages
C29_Witness ==
    /\ Len(message_groups) = 2
    /\ Len(message_groups[1].messages) = 2
    /\ Len(message_groups[2].messages) = 1
    /\ Len(appended) = MaxMessages
    /\ \A k \in 1..Len(appended) : appended[k].returned

\* ------------------------------------------------------------------------
\* The handlers of the message events: on_message, on_raw_message_delete
\* and on_raw_message_edit (GabbyGums.py), on_raw_bulk_message_delete
\* (events/bulkMessageDelete.py)
\*
\* A handler is a coroutine: it runs from one await to the next without
\* interruption, and the other handlers run while it waits.  hpc[h] names
\* the call handler h waits in ("invoked" before its first statement).  An
\* action resumes the handler with the answer of that call, drawn from the
\* answers the database, the Discord client and the PluralKit API can give
\* (a call that reads or writes the message cache takes effect at this
\* moment), and runs it to its next await, its return or its exception.
\*
\* payload[h] is the event:
\*   on_message                  message (id, author, content), attachments
\*                               (id and filename of each), webhook_id,
\*                               guild_is_None (a direct message),
\*                               restricted (the guild saves attachments)
\*   on_raw_message_delete       guild_id_is_None, message_id, cached_message
\*   on_raw_bulk_message_delete  guild_id_is_None, message_ids,
\*                               cached_messages
\*   on_raw_message_edit         message_id, cached_message, and of data:
\*                               content (None when data has no such key),
\*                               guild_id_in_data, author_id (the string
\*                               data['author']['id'])
\* ------------------------------------------------------------------------
\* client.user, the account of the bot
ClientUser == [id |-> 0, name |-> "g"]

\* handler h, an instance of the named handler, waits in the named call
waits_in(h, handler, call) == hpc[h] = call /\ payload[h].handler = handler

\* handler h goes on to wait in the named call ("returned" and "raised" end
\* it)
goto(h, call) == hpc' = [hpc EXCEPT ![h] = call]

\* db.get_cached_message: the row of the message, NoneObj without one
get_cached_message(cache, message_id) ==
    IF \E row \in cache : row.message_id = message_id
    THEN CHOOSE row \in cache : row.message_id = message_id
    ELSE NoneObj

\* db.delete_cached_message: the cache after it
delete_cached_message(cache, message_id) ==
    {row \in cache : row.message_id # message_id}

\* db.update_cached_message_pk_details: the cache after it
update_cached_message_pk_details(cache, message_id, system_pk_id, member_pk_id, sender_discord_id) ==
    { IF row.message_id = message_id
      THEN [row EXCEPT !.system_pkid = system_pk_id,
                       !.member_pkid = member_pk_id,
                       !.pk_system_account_id = sender_discord_id]
      ELSE row : row \in cache }

\* int() of a string of decimal digits
int(s) ==
    LET digits == <<"0", "1", "2", "3", "4", "5", "6", "7", "8", "9">>
        digit(c) == (CHOOSE n \in 1..10 : digits[n] = c) - 1
        value[k \in 0..Len(s)] == IF k = 0 THEN 0 ELSE 10 * value[k - 1] + digit(s[k])
    IN  value[Len(s)]

\* str() of a natural number
RECURSIVE str(_)
str(n) ==
    LET digits == <<"0", "1", "2", "3", "4", "5", "6", "7", "8", "9">>
    IN  IF n < 10 THEN digits[n + 1] ELSE str(n \div 10) \o digits[(n % 10) + 1]

\* sorted() of a set of numbers
RECURSIVE sorted(_)
sorted(ids) ==
    IF ids = {} THEN <<>>
    ELSE LET least == CHOOSE i \in ids : \A j \in ids : i <= j
         IN  <<least>> \o sorted(ids \ {least})

\* discord.utils.get(messages, id=msg_id)
utils_get(messages, msg_id) ==
    IF \E m \in messages : m.id = msg_id
    THEN CHOOSE m \in messages : m.id = msg_id
    ELSE NoneObj

\* the channels client.get_channel and client.fetch_channel can answer with:
\* in a category or in none
Channels == {[category |-> NoneObj], [category |-> [id |-> 1]]}

\* what bot.get_user answers for the user of a cached row
UserAnswers == {NoneObj, SomeAuthor}

\* ------------------------------------------------------------------------
\* on_message
\* ------------------------------------------------------------------------
\* on_message: a message not sent by the bot is stored in the cache.
\* on_message_cache is the call the statements after the loop over the
\* attachments end in, attachments being the file names saved (None when
\* nothing was to be saved); message.guild.id raises for a direct message.
OnMessage(h) ==
    LET message == payload[h].message
        message_contents == IF message.content # <<>> THEN message.content ELSE None
        on_message_cache(attachments) ==
            IF message_contents # None \/ attachments # None
            THEN IF payload[h].guild_is_None THEN "raised" ELSE "cache_message"
            ELSE "process_commands"
        saved == frame[h].attachments
        attachment == payload[h].attachments[Len(saved) + 1]
        attachment_filename == str(attachment.id) \o "_" \o attachment.filename
        save_next(attachments) ==
            /\ frame' = [frame EXCEPT ![h].attachments = attachments]
            /\ goto(h, IF Len(attachments) < Len(payload[h].attachments)
                       THEN "attachment.save"
                       ELSE on_message_cache(attachments))
    IN  /\ \/ /\ waits_in(h, "on_message", "invoked")
              /\ IF message.author.id = ClientUser.id
                 THEN goto(h, "process_commands") /\ UNCHANGED frame
                 ELSE IF Len(payload[h].attachments) > 0 /\ payload[h].guild_is_None
                 THEN /\ frame' = [frame EXCEPT ![h].attachments = None]
                      /\ goto(h, "raised")
                 ELSE IF Len(payload[h].attachments) > 0 /\ payload[h].restricted
                 THEN save_next(<<>>)
                 ELSE /\ frame' = [frame EXCEPT ![h].attachments = None]
                      /\ goto(h, on_message_cache(None))
              /\ UNCHANGED db
           \/ /\ waits_in(h, "on_message", "attachment.save")
              /\ \E FileNotFoundError \in BOOLEAN :
                    IF FileNotFoundError
                    THEN goto(h, "attachment.save again") /\ UNCHANGED frame
                    ELSE save_next(Append(saved, attachment_filename))
              /\ UNCHANGED db
           \/ /\ waits_in(h, "on_message", "attachment.save again")
              /\ save_next(Append(saved, attachment_filename))
              /\ UNCHANGED db
           \/ /\ waits_in(h, "on_message", "cache_message")
              /\ db' = db \cup
                    {CachedMessage(message.id, message.author.id, message_contents, saved,
                                   IF payload[h].webhook_id # NoneObj
                                   THEN <<message.author.name>> ELSE None)}
              /\ goto(h, "process_commands")
              /\ UNCHANGED frame
           \/ /\ waits_in(h, "on_message", "process_commands")
              /\ goto(h, "returned")
              /\ UNCHANGED <<db, frame>>
        /\ UNCHANGED <<engine_vars, archive_vars, payload, db_cached_messages>>

\* ------------------------------------------------------------------------
\* on_raw_message_delete
\* ------------------------------------------------------------------------
\* await cleanup_message_cache() and the return after it: the call the
\* handler waits in next.  db_cached_messages[h] holds the row
\* db_cached_message, and nothing when that is None.
cleanup_message_cache(h) ==
    IF db_cached_messages[h] # <<>> THEN "delete_cached_message" ELSE "returned"

\* the test of the author once the channel and the category are not
\* ignored, with get_user the answer of client.get_user: the call the
\* handler waits in next
author_test(h, get_user) ==
    LET cached_message == payload[h].cached_message
        author == IF cached_message # NoneObj THEN cached_message.author ELSE get_user
    IN  IF cached_message # NoneObj \/ db_cached_messages[h] # <<>>
        THEN IF author # NoneObj
             THEN IF ClientUser.id = author.id THEN cleanup_message_cache(h)
                  ELSE "get_ignored_users"
             ELSE "session.get"
        ELSE "session.get"

\* is_category_ignored(..., channel.category) on the channel
\* get_channel_safe returned: the attribute of None raises, no category
\* needs no query and leads to the call named go_on
category_test(channel, go_on) ==
    IF channel = NoneObj THEN "raised"
    ELSE IF channel.category # NoneObj THEN "get_ignored_categories"
    ELSE go_on

\* the DM test and db.get_cached_message
MessageDelete(h) ==
    /\ \/ /\ waits_in(h, "on_raw_message_delete", "invoked")
          /\ goto(h, IF payload[h].guild_id_is_None THEN "returned"
                     ELSE "get_cached_message")
          /\ UNCHANGED db_cached_messages
       \/ /\ waits_in(h, "on_raw_message_delete", "get_cached_message")
          /\ LET db_cached_message == get_cached_message(db, payload[h].message_id)
             IN  db_cached_messages' =
                    [db_cached_messages EXCEPT ![h] =
                        IF db_cached_message # NoneObj THEN <<db_cached_message>>
                        ELSE <<>>]
          /\ goto(h, "get_ignored_channels")
    /\ UNCHANGED <<engine_vars, archive_vars, payload, db, frame>>

\* if await is_channel_ignored(...), and get_channel_safe up to its await
MessageDeleteChannelIgnored(h) ==
    /\ waits_in(h, "on_raw_message_delete", "get_ignored_channels")
    /\ \E ignored \in BOOLEAN, channel \in Channels \cup {NoneObj}, get_user \in UserAnswers :
            goto(h, IF ignored THEN cleanup_message_cache(h)
                    ELSE IF channel = NoneObj THEN "fetch_channel"
                    ELSE category_test(channel, author_test(h, get_user)))
    /\ UNCHANGED <<engine_vars, archive_vars, payload, db, db_cached_messages, frame>>

\* channel = await get_channel_safe(...) from its await on, and if await
\* is_category_ignored(..., channel.category)
MessageDeleteCategoryIgnored(h) ==
    /\ \/ /\ waits_in(h, "on_raw_message_delete", "fetch_channel")
          /\ \E channel \in Channels \cup {NoneObj}, get_user \in UserAnswers :
                goto(h, category_test(channel, author_test(h, get_user)))
       \/ /\ waits_in(h, "on_raw_message_delete", "get_ignored_categories")
          /\ \E ignored \in BOOLEAN, get_user \in UserAnswers :
                goto(h, IF ignored THEN cleanup_message_cache(h)
                        ELSE author_test(h, get_user))
    /\ UNCHANGED <<engine_vars, archive_vars, payload, db, db_cached_messages, frame>>

\* await is_user_ignored(...) of the author test
MessageDeleteAuthor(h) ==
    /\ waits_in(h, "on_raw_message_delete", "get_ignored_users")
    /\ \E ignored \in BOOLEAN :
            goto(h, IF ignored THEN cleanup_message_cache(h) ELSE "session.get")
    /\ UNCHANGED <<engine_vars, archive_vars, payload, db, db_cached_messages, frame>>

\* a ClientError of aiohttp
ClientError == [raised |-> "ClientError"]

\* the JSON answers of the PluralKit API: the id of a message (of the
\* deleted message itself, or of the message it was proxied to) and the
\* sender, the system and the member, each of which the answer can lack.
\* A key the answer lacks is None here; system and member are the ids in
\* the dictionaries of these names.
PkResponses ==
    { [id |-> i, sender |-> s, system |-> y, member |-> m] :
        i \in {<<"1">>, <<"2">>, None}, s \in {<<"1">>, None},
        y \in {<<"s">>, None}, m \in {<<"m">>, None} }

\* verify_message_is_preproxy_message
verify_message_is_preproxy_message(message_id, pk_response) ==
    IF pk_response.id # None
    THEN LET pk_message_id == int(pk_response.id)
         IN  IF message_id = pk_message_id THEN FALSE ELSE TRUE
    ELSE TRUE

\* the request to the PluralKit API and the reading of its answer, and
\* cache_pk_message_details up to its first await
MessageDeletePluralKit(h) ==
    /\ \/ /\ waits_in(h, "on_raw_message_delete", "session.get")
          /\ \E status \in {"200", "404", "ClientError"} :
                goto(h, IF status = "200" THEN "r.json" ELSE "get_server_log_configs")
          /\ UNCHANGED frame
       \/ /\ waits_in(h, "on_raw_message_delete", "r.json")
          /\ \E pk_response \in PkResponses \cup {ClientError} :
                IF pk_response = ClientError
                THEN goto(h, "get_server_log_configs") /\ UNCHANGED frame
                ELSE /\ frame' = [frame EXCEPT ![h].pk_response = pk_response]
                     /\ goto(h, IF ~verify_message_is_preproxy_message(
                                        payload[h].message_id, pk_response)
                                THEN "get_server_log_configs"
                                ELSE IF pk_response.id # None
                                THEN "update_cached_message_pk_details"
                                ELSE "send_error_msg_to_log")
    /\ UNCHANGED <<engine_vars, archive_vars, payload, db, db_cached_messages>>

\* cache_pk_message_details from its first await on, and the cleanup and
\* return after it
CachePkMessageDetails(h) ==
    LET pk_response == frame[h].pk_response
        message_id == int(pk_response.id)
        sender_discord_id ==
            IF pk_response.sender # None THEN [id |-> int(pk_response.sender)]
            ELSE NoneObj
        error_msg ==
            (IF pk_response.sender = None THEN <<"sender">> ELSE <<>>)
            \o (IF pk_response.system = None THEN <<"system">> ELSE <<>>)
            \o (IF pk_response.member = None THEN <<"member">> ELSE <<>>)
    IN  /\ \/ /\ waits_in(h, "on_raw_message_delete", "update_cached_message_pk_details")
              /\ db' = update_cached_message_pk_details(db, message_id, pk_response.system,
                                                        pk_response.member, sender_discord_id)
              /\ goto(h, IF Len(error_msg) > 0 THEN "send_error_msg_to_log"
                         ELSE cleanup_message_cache(h))
           \/ /\ waits_in(h, "on_raw_message_delete", "send_error_msg_to_log")
              /\ goto(h, cleanup_message_cache(h))
              /\ UNCHANGED db
        /\ UNCHANGED <<engine_vars, archive_vars, payload, db_cached_messages, frame>>

\* the configurations get_server_log_configs can hold for the event type:
\* none, disabled, enabled with a channel of its own, enabled without
EventConfigs ==
    { NoneObj,
      [enabled |-> FALSE, log_channel_id |-> NoneObj],
      [enabled |-> TRUE, log_channel_id |-> [id |-> 7]],
      [enabled |-> TRUE, log_channel_id |-> NoneObj] }

\* get_event_or_guild_logging_channel for an event type, resumed in the
\* named call with an answer (the configuration of the event, the id of
\* the default channel, the channel fetched): the ways it goes on, each
\* either a return with log_channel or a wait in the call named await.
\* get_channel_safe gets the channel from the client or, when the client
\* has none, waits for fetch_channel, which gives the channel or raises
\* NotFound (None is returned then).
get_event_or_guild_logging_channel(call) ==
    LET return(log_channel) ==
            [returned |-> TRUE, await |-> "", log_channel |-> log_channel]
        wait(next) == [returned |-> FALSE, await |-> next, log_channel |-> NoneObj]
        get_channel_safe(channel) ==
            IF channel = NoneObj THEN wait("fetch_log_channel") ELSE return(channel)
    IN  IF call = "get_server_log_configs"
        THEN { IF event_configs # NoneObj /\ event_configs.enabled = FALSE
               THEN return(NoneObj)
               ELSE IF event_configs # NoneObj /\ event_configs.log_channel_id # NoneObj
               THEN get_channel_safe(channel)
               ELSE wait("get_log_channel") :
                    event_configs \in EventConfigs, channel \in Channels \cup {NoneObj} }
        ELSE IF call = "get_log_channel"
        THEN { IF _log_channel_id # NoneObj THEN get_channel_safe(channel)
               ELSE return(NoneObj) :
                    _log_channel_id \in {NoneObj, [id |-> 7]},
                    channel \in Channels \cup {NoneObj} }
        ELSE IF call = "fetch_log_channel"
        THEN { return(channel) : channel \in Channels \cup {NoneObj} }
        ELSE {}

\* log_channel = await get_event_or_guild_logging_channel(...); without a
\* channel the handler cleans up and returns, with one it opens the files
\* of the cached row that are still on the disk (discord.File raises
\* FileNotFoundError for the others) and sends the embed.  kept is the list
\* of the names at the places keep, in order.
MessageDeleteLogChannel(h) ==
    LET row == db_cached_messages[h]
        kept(names, keep) ==
            ConcatRange([k \in 1..Len(names) |-> IF k \in keep THEN <<names[k]>> ELSE <<>>],
                        1, Len(names))
        names == IF row # <<>> /\ row[1].attachments # None THEN row[1].attachments
                 ELSE <<>>
    IN  /\ get_event_or_guild_logging_channel(hpc[h]) # {}
        /\ payload[h].handler = "on_raw_message_delete"
        /\ \E way \in get_event_or_guild_logging_channel(hpc[h]) :
                IF ~way.returned
                THEN goto(h, way.await) /\ UNCHANGED frame
                ELSE IF way.log_channel = NoneObj
                THEN goto(h, cleanup_message_cache(h)) /\ UNCHANGED frame
                ELSE /\ \E keep \in SUBSET (1..Len(names)) :
                            frame' = [frame EXCEPT ![h].attachments = kept(names, keep)]
                     /\ goto(h, "send")
        /\ UNCHANGED <<engine_vars, archive_vars, payload, db, db_cached_messages>>

\* await log_channel.send(embed=embed), the second send for the attachments
\* and the cleanup at the end
MessageDeleteSend(h) ==
    /\ \/ /\ waits_in(h, "on_raw_message_delete", "send")
          /\ goto(h, IF Len(frame[h].attachments) > 0 THEN "send attachments"
                     ELSE cleanup_message_cache(h))
       \/ /\ waits_in(h, "on_raw_message_delete", "send attachments")
          /\ goto(h, cleanup_message_cache(h))
    /\ UNCHANGED <<engine_vars, archive_vars, payload, db, db_cached_messages, frame>>

\* cleanup_message_cache from its await on: the row is deleted and the
\* handler returns
MessageDeleteCleanup(h) ==
    /\ waits_in(h, "on_raw_message_delete", "delete_cached_message")
    /\ db' = delete_cached_message(db, db_cached_messages[h][1].message_id)
    /\ goto(h, "returned")
    /\ UNCHANGED <<engine_vars, archive_vars, payload, db_cached_messages, frame>>

\* ------------------------------------------------------------------------
\* on_raw_message_edit
\* ------------------------------------------------------------------------
\* db.update_cached_message: the cache after it
update_cached_message(cache, message_id, new_content) ==
    { IF row.message_id = message_id THEN [row EXCEPT !.content = new_content]
      ELSE row : row \in cache }

\* if author is None, once the channel and the category are not ignored:
\* the call the handler waits in next.  author is None when the message is
\* not in the memory cache.
edit_author_test(h) ==
    IF payload[h].cached_message # NoneObj THEN "get_server_log_configs"
    ELSE "wait_until_ready"

\* the tests of the content and of guild_id, db.get_cached_message, and the
\* tests of the author and of the change.  Without the message in memory
\* author_id is the string of data, which equals no client.user.id, a
\* number; before_msg is None without a row.
MessageEdit(h) ==
    LET cached_message == payload[h].cached_message
        db_cached_message == get_cached_message(db, payload[h].message_id)
        after_msg == payload[h].content
        before_msg == IF cached_message # NoneObj THEN cached_message.content
                      ELSE IF db_cached_message # NoneObj THEN db_cached_message.content
                      ELSE None
        is_client_user ==
            IF cached_message # NoneObj THEN ClientUser.id = cached_message.author.id
            ELSE FALSE
    IN  /\ \/ /\ waits_in(h, "on_raw_message_edit", "invoked")
              /\ goto(h, IF payload[h].content # None /\ payload[h].content # <<>>
                         THEN IF ~payload[h].guild_id_in_data THEN "returned"
                              ELSE "get_cached_message"
                         ELSE "returned")
              /\ UNCHANGED db_cached_messages
           \/ /\ waits_in(h, "on_raw_message_edit", "get_cached_message")
              /\ db_cached_messages' =
                    [db_cached_messages EXCEPT ![h] =
                        IF db_cached_message # NoneObj THEN <<db_cached_message>>
                        ELSE <<>>]
              /\ goto(h, IF is_client_user THEN "returned"
                         ELSE IF after_msg = before_msg THEN "returned"
                         ELSE "get_ignored_users")
        /\ UNCHANGED <<engine_vars, archive_vars, payload, db, frame>>

\* if await is_user_ignored(...), if await is_channel_ignored(...),
\* get_channel_safe and if await is_category_ignored(..., channel.category)
MessageEditIgnored(h) ==
    /\ \/ /\ waits_in(h, "on_raw_message_edit", "get_ignored_users")
          /\ \E ignored \in BOOLEAN :
                goto(h, IF ignored THEN "returned" ELSE "get_ignored_channels")
       \/ /\ waits_in(h, "on_raw_message_edit", "get_ignored_channels")
          /\ \E ignored \in BOOLEAN, channel \in Channels \cup {NoneObj} :
                goto(h, IF ignored THEN "returned"
                        ELSE IF channel = NoneObj THEN "fetch_channel"
                        ELSE category_test(channel, edit_author_test(h)))
       \/ /\ waits_in(h, "on_raw_message_edit", "fetch_channel")
          /\ \E channel \in Channels \cup {NoneObj} :
                goto(h, category_test(channel, edit_author_test(h)))
       \/ /\ waits_in(h, "on_raw_message_edit", "get_ignored_categories")
          /\ \E ignored \in BOOLEAN :
                goto(h, IF ignored THEN "returned" ELSE edit_author_test(h))
    /\ UNCHANGED <<engine_vars, archive_vars, payload, db, db_cached_messages, frame>>

\* await client.wait_until_ready(), client.get_user and await
\* client.fetch_user, which gives the user or raises NotFound
MessageEditAuthor(h) ==
    /\ \/ /\ waits_in(h, "on_raw_message_edit", "wait_until_ready")
          /\ \E get_user \in UserAnswers :
                goto(h, IF get_user = NoneObj THEN "fetch_user"
                        ELSE "get_server_log_configs")
       \/ /\ waits_in(h, "on_raw_message_edit", "fetch_user")
          /\ \E NotFound \in BOOLEAN :
                goto(h, IF NotFound THEN "raised" ELSE "get_server_log_configs")
    /\ UNCHANGED <<engine_vars, archive_vars, payload, db, db_cached_messages, frame>>

\* log_channel = await get_event_or_guild_logging_channel(...); without a
\* channel the handler returns
MessageEditLogChannel(h) ==
    /\ get_event_or_guild_logging_channel(hpc[h]) # {}
    /\ payload[h].handler = "on_raw_message_edit"
    /\ \E way \in get_event_or_guild_logging_channel(hpc[h]) :
            goto(h, IF ~way.returned THEN way.await
                    ELSE IF way.log_channel = NoneObj THEN "returned"
                    ELSE "send")
    /\ UNCHANGED <<engine_vars, archive_vars, payload, db, db_cached_messages, frame>>

\* await log_channel.send(embed=embed), and await db.update_cached_message
\* when the message had a row: the row gets the new content
MessageEditSend(h) ==
    /\ \/ /\ waits_in(h, "on_raw_message_edit", "send")
          /\ goto(h, IF db_cached_messages[h] # <<>> THEN "update_cached_message"
                     ELSE "returned")
          /\ UNCHANGED db
       \/ /\ waits_in(h, "on_raw_message_edit", "update_cached_message")
          /\ db' = update_cached_message(db, payload[h].message_id, payload[h].content)
          /\ goto(h, "returned")
    /\ UNCHANGED <<engine_vars, archive_vars, payload, db_cached_messages, frame>>

\* ------------------------------------------------------------------------
\* on_raw_bulk_message_delete
\* ------------------------------------------------------------------------
\* await cleanup_message_cache() and the return after it: the call the
\* handler waits in next
bulk_cleanup_message_cache(h) ==
    IF Len(db_cached_messages[h]) > 0 THEN "delete_cached_message" ELSE "returned"

\* the DM test and the statements before the loop over msg_ids
BulkMessageDelete(h) ==
    /\ waits_in(h, "on_raw_bulk_message_delete", "invoked")
    /\ goto(h, IF payload[h].guild_id_is_None THEN "returned"
               ELSE IF sorted(payload[h].message_ids) = <<>> THEN "get_ignored_channels"
               ELSE "get_cached_message")
    /\ UNCHANGED <<engine_vars, archive_vars, payload, db, db_cached_messages, frame>>

\* one turn of the loop over msg_ids from its await on: the row fetched on
\* this turn and the message of the memory cache make the CompositeMessage
\* that message_groups.append gets.  get_user is what self.bot.get_user
\* answers to __init__, again what it answers to the reads of the author
\* in append.
BulkMessageDeleteCollect(h) ==
    LET msg_ids == sorted(payload[h].message_ids)
        msg_id == msg_ids[frame[h].msg_count + 1]
        db_msg == get_cached_message(db, msg_id)
        mem_msg == utils_get(payload[h].cached_messages, msg_id)
        turn(after) ==
            IF after.raised # NoneObj
            THEN goto(h, "raised") /\ UNCHANGED frame
            ELSE /\ frame' = [frame EXCEPT ![h].message_groups = after._message_groups,
                                           ![h].msg_count = @ + 1]
                 /\ goto(h, IF frame[h].msg_count + 1 < Len(msg_ids)
                            THEN "get_cached_message" ELSE "get_ignored_channels")
        append(comp_msg) ==
            turn(MessageGroups_append(frame[h].message_groups, comp_msg))
    IN  /\ waits_in(h, "on_raw_bulk_message_delete", "get_cached_message")
        /\ db_cached_messages' =
                [db_cached_messages EXCEPT ![h] =
                    IF db_msg # NoneObj THEN Append(@, db_msg) ELSE @]
        /\ \E get_user, again \in UserAnswers :
                append([CompositeMessage([get_user |-> get_user], msg_id, mem_msg, db_msg)
                            EXCEPT !.bot = [get_user |-> again]])
        /\ UNCHANGED <<engine_vars, archive_vars, payload, db>>

\* if await self.bot.is_channel_ignored(...), and get_channel_safe up to
\* its await
BulkMessageDeleteChannelIgnored(h) ==
    /\ waits_in(h, "on_raw_bulk_message_delete", "get_ignored_channels")
    /\ \E ignored \in BOOLEAN, channel \in Channels \cup {NoneObj} :
            goto(h, IF ignored THEN bulk_cleanup_message_cache(h)
                    ELSE IF channel = NoneObj THEN "fetch_channel"
                    ELSE category_test(channel, "get_server_log_configs"))
    /\ UNCHANGED <<engine_vars, archive_vars, payload, db, db_cached_messages, frame>>

\* channel = await self.bot.get_channel_safe(...) from its await on, and if
\* await self.bot.is_category_ignored(..., channel.category)
BulkMessageDeleteCategoryIgnored(h) ==
    /\ \/ /\ waits_in(h, "on_raw_bulk_message_delete", "fetch_channel")
          /\ \E channel \in Channels \cup {NoneObj} :
                goto(h, category_test(channel, "get_server_log_configs"))
       \/ /\ waits_in(h, "on_raw_bulk_message_delete", "get_ignored_categories")
          /\ \E ignored \in BOOLEAN :
                goto(h, IF ignored THEN bulk_cleanup_message_cache(h)
                        ELSE "get_server_log_configs")
    /\ UNCHANGED <<engine_vars, archive_vars, payload, db, db_cached_messages, frame>>

\* log_channel = await self.bot.get_event_or_guild_logging_channel(...);
\* without a channel the handler cleans up and returns, with one it makes
\* the archive and sends it
BulkMessageDeleteLogChannel(h) ==
    /\ get_event_or_guild_logging_channel(hpc[h]) # {}
    /\ payload[h].handler = "on_raw_bulk_message_delete"
    /\ \E way \in get_event_or_guild_logging_channel(hpc[h]) :
            goto(h, IF ~way.returned THEN way.await
                    ELSE IF way.log_channel = NoneObj THEN bulk_cleanup_message_cache(h)
                    ELSE "send")
    /\ UNCHANGED <<engine_vars, archive_vars, payload, db, db_cached_messages, frame>>

\* await log_channel.send(embed=embed, file=...) and the cleanup at the end
BulkMessageDeleteSend(h) ==
    /\ waits_in(h, "on_raw_bulk_message_delete", "send")
    /\ goto(h, bulk_cleanup_message_cache(h))
    /\ UNCHANGED <<engine_vars, archive_vars, payload, db, db_cached_messages, frame>>

\* one turn of the loop of cleanup_message_cache from its await on: the row
\* of the turn is deleted; after the last row the handler returns
BulkMessageDeleteCleanup(h) ==
    LET cached_msg == db_cached_messages[h][frame[h].cleaned + 1]
    IN  /\ waits_in(h, "on_raw_bulk_message_delete", "delete_cached_message")
        /\ db' = delete_cached_message(db, cached_msg.message_id)
        /\ frame' = [frame EXCEPT ![h].cleaned = @ + 1]
        /\ goto(h, IF frame[h].cleaned + 1 < Len(db_cached_messages[h])
                   THEN "delete_cached_message" ELSE "returned")
        /\ UNCHANGED <<engine_vars, archive_vars, payload, db_cached_messages>>

\* ------------------------------------------------------------------------
\* The events and the caches the handlers are checked with
\* ------------------------------------------------------------------------
MessageIds == {1, 2}

\* the rows the cache can hold for a message: content only, content of a
\* webhook, an attachment only
RowsOf(message_id) ==
    { CachedMessage(message_id, 1, <<"a">>, None, None),
      CachedMessage(message_id, 1, <<"a">>, None, <<"w">>),
      CachedMessage(message_id, 1, None, <<"f">>, None) }

\* at most one row for each message
Caches ==
    LET rows(message_id) == {{}} \cup {{row} : row \in RowsOf(message_id)}
    IN  {rows1 \cup rows2 : rows1 \in rows(1), rows2 \in rows(2)}

\* a message is sent: by a user, with content, with an attachment only (in
\* a guild that saves them or not), through a webhook, with nothing, by the
\* bot itself, or by a user in a direct message, with content or with an
\* attachment
MessageSent(id) ==
    LET f == [id |-> 3, filename |-> "f"]
        event(author, message_content, attachments, webhook_id, restricted, dm) ==
            [ handler |-> "on_message",
              message |-> Message(id, author, message_content),
              attachments |-> attachments, webhook_id |-> webhook_id,
              restricted |-> restricted, guild_is_None |-> dm ]
    IN  { event(SomeAuthor, <<"a">>, <<>>, NoneObj, FALSE, FALSE),
          event(SomeAuthor, <<>>, <<f>>, NoneObj, TRUE, FALSE),
          event(SomeAuthor, <<>>, <<f>>, NoneObj, FALSE, FALSE),
          event(SomeAuthor, <<"a">>, <<>>, [id |-> 5], FALSE, FALSE),
          event(SomeAuthor, <<>>, <<>>, NoneObj, FALSE, FALSE),
          event(ClientUser, <<"a">>, <<>>, NoneObj, FALSE, FALSE),
          event(SomeAuthor, <<"a">>, <<>>, NoneObj, FALSE, TRUE),
          event(SomeAuthor, <<>>, <<f>>, NoneObj, FALSE, TRUE) }

\* a message is deleted, in a guild or in a direct message; the memory
\* cache holds it or not
MessageDeleted(id) ==
    { [ handler |-> "on_raw_message_delete", guild_id_is_None |-> dm,
        message_id |-> id, cached_message |-> m ] :
        dm \in BOOLEAN,
        m \in {NoneObj, Message(id, SomeAuthor, <<"a">>), Message(id, ClientUser, <<"a">>)} }

\* a message is edited: to "b" or to "a" with nothing in memory, by a user
\* or by the bot; with the message in memory, of a user (changed or not) or
\* of the bot; in a direct message; to the empty content; or something
\* other than its content changes
MessageEdited(id) ==
    LET event(message_content, guild_id_in_data, cached_message, author_id) ==
            [ handler |-> "on_raw_message_edit", message_id |-> id,
              content |-> message_content, guild_id_in_data |-> guild_id_in_data,
              cached_message |-> cached_message, author_id |-> author_id ]
    IN  { event(<<"b">>, TRUE, NoneObj, <<"1">>),
          event(<<"a">>, TRUE, NoneObj, <<"1">>),
          event(<<"b">>, TRUE, NoneObj, <<"0">>),
          event(<<"b">>, TRUE, Message(id, SomeAuthor, <<"a">>), <<"1">>),
          event(<<"b">>, TRUE, Message(id, SomeAuthor, <<"b">>), <<"1">>),
          event(<<"b">>, TRUE, Message(id, ClientUser, <<"a">>), <<"0">>),
          event(<<"b">>, FALSE, NoneObj, <<"1">>),
          event(<<>>, TRUE, NoneObj, <<"1">>),
          event(None, TRUE, NoneObj, <<"1">>) }

\* messages are deleted in bulk: both messages, with any of them in the
\* memory cache, or none at all
BulkDeleted ==
    { [ handler |-> "on_raw_bulk_message_delete", guild_id_is_None |-> dm,
        message_ids |-> MessageIds, cached_messages |-> ms ] :
        dm \in BOOLEAN,
        ms \in SUBSET {Message(id, SomeAuthor, <<"a">>) : id \in MessageIds} }
    \cup { [ handler |-> "on_raw_bulk_message_delete", guild_id_is_None |-> FALSE,
             message_ids |-> {}, cached_messages |-> {} ] }

Events ==
    UNION {MessageSent(id) \cup MessageDeleted(id) \cup MessageEdited(id) : id \in MessageIds}
    \cup BulkDeleted

\* the events that arrive while the first handler runs: none, message 1 is
\* sent, message 2 is deleted, message 1 is edited
Concurrent ==
    { NoneObj,
      [ handler |-> "on_message", message |-> Message(1, SomeAuthor, <<"a">>),
        attachments |-> <<>>, webhook_id |-> NoneObj, restricted |-> FALSE,
        guild_is_None |-> FALSE ],
      [ handler |-> "on_raw_message_delete", guild_id_is_None |-> FALSE,
        message_id |-> 2, cached_message |-> NoneObj ],
      [ handler |-> "on_raw_message_edit", message_id |-> 1, content |-> <<"b">>,
        guild_id_in_data |-> TRUE, cached_message |-> NoneObj, author_id |-> <<"1">> ] }

\* the event is the sending of the message with this id
sends(event, id) ==
    /\ event # NoneObj
    /\ event.handler = "on_message"
    /\ event.message.id = id

\* the first handler is invoked with any event, the others with the events
\* of Concurrent; a message is sent once, and the cache has no row for it
\* before on_message stores one
InitDelete ==
    /\ EngineIdle
    /\ ArchiveIdle
    /\ payload \in [Handlers -> Events \cup Concurrent]
    /\ payload[1] \in Events
    /\ \A h \in Handlers \ {1} : payload[h] \in Concurrent
    /\ \A h1, h2 \in Handlers, id \in MessageIds :
            sends(payload[h1], id) /\ sends(payload[h2], id) => h1 = h2
    /\ hpc = [h \in Handlers |-> IF payload[h] = NoneObj THEN "idle" ELSE "invoked"]
    /\ db \in Caches
    /\ \A h \in Handlers, id \in MessageIds :
            sends(payload[h], id) => get_cached_message(db, id) = NoneObj
    /\ db_cached_messages = [h \in Handlers |-> <<>>]
    /\ frame = [h \in Handlers |-> NoLocals]

NextDelete ==
    \E h \in Handlers :
        \/ OnMessage(h)
        \/ MessageDelete(h)
        \/ MessageDeleteChannelIgnored(h)
        \/ MessageDeleteCategoryIgnored(h)
        \/ MessageDeleteAuthor(h)
        \/ MessageDeletePluralKit(h)
        \/ CachePkMessageDetails(h)
        \/ MessageDeleteLogChannel(h)
        \/ MessageDeleteSend(h)
        \/ MessageDeleteCleanup(h)
        \/ MessageEdit(h)
        \/ MessageEditIgnored(h)
        \/ MessageEditAuthor(h)
        \/ MessageEditLogChannel(h)
        \/ MessageEditSend(h)
        \/ BulkMessageDelete(h)
        \/ BulkMessageDeleteCollect(h)
        \/ BulkMessageDeleteChannelIgnored(h)
        \/ BulkMessageDeleteCategoryIgnored(h)
        \/ BulkMessageDeleteLogChannel(h)
        \/ BulkMessageDeleteSend(h)
        \/ BulkMessageDeleteCleanup(h)

SpecDelete == InitDelete /\ [][NextDelete]_vars

\* handler h is a delete handler that was invoked for a guild and has
\* finished, by a return or by an exception
delete_finished(h) ==
    /\ hpc[h] \in {"returned", "raised"}
    /\ payload[h].handler \in {"on_raw_message_delete", "on_raw_bulk_message_delete"}
    /\ ~payload[h].guild_id_is_None

\* C30: when a delete handler invoked for a guild payload has finished, by
\* a return or by an exception, no row it fetched from the database cache
\* is left there.
C30_FetchedRecordsRemoved ==
    \A h \in Handlers :
        delete_finished(h) =>
            \A k \in 1..Len(db_cached_messages[h]) :
                get_cached_message(db, db_cached_messages[h][k].message_id) = NoneObj

====
